---- MODULE Spec2Model ----
(***************************************************************************)
(* Model of conduit-core's in-memory file index: the persistent Index      *)
(* (fs/index.rs) and the IndexManager (fs/manager.rs) with its atomically  *)
(* swappable active index, the staging session and the line-index cache.   *)
(***************************************************************************)
EXTENDS Integers, Sequences, FiniteSets, TLC

VARIABLES
    ix,       \* a stand-alone Index value driven directly through its own API
    ixret,    \* the last Index call on ix and what it returned
    heap,     \* Arc<Index> allocations: address -> Index, or Free
    active,   \* IndexManager.active: address of the published Index
    staged,   \* IndexManager.staged: None, or the StagingState of the session
    cache,    \* IndexManager.line_index_cache: set of (path, mtime) keys
    handle,   \* per reader: the set of Arc<Index> addresses it holds (none or one)
    seen,     \* per reader: the Index value it read when it took the handle
    call,     \* the last IndexManager call that returns a Result, and its result
    ncalls,   \* how many such calls were made
    orch,     \* per client thread: where its Orchestrator request stands
    tool      \* a text tool's call: the function, its input and what it returned

vars == <<ix, ixret, heap, active, staged, cache, handle, seen, call, ncalls, orch, tool>>

mgrVars == <<heap, active, staged, cache, handle, seen, call, ncalls, orch, tool>>

(***************************************************************************)
(* Bounds and input sets                                                   *)
(***************************************************************************)
\* number of reader threads holding snapshot handles
NumReaders == 1

\* IndexManager calls made in one run
MaxCalls == 4

\* longest batch handed to load_files / add_files_to_staging
MaxBatch == 2

\* number of client threads driving the Orchestrator
NumClients == 2

Readers == 1..NumReaders

Clients == (NumReaders + 1)..(NumReaders + NumClients)

\* PathKey values as strings of character codes: "a", "ab", "b"
Paths == {<<1>>, <<1, 2>>, <<2>>}

\* the paths the manager is driven with
MgrPaths == {<<1>>, <<1, 2>>}

\* FileEntry values handed in by callers: bytes, mtime and the editable flag
EntryA == [bytes |-> <<1>>, mtime |-> 1, editable |-> TRUE]

EntryB == [bytes |-> <<2, 10, 2>>, mtime |-> 2, editable |-> TRUE]

EntryRO == [bytes |-> <<1>>, mtime |-> 1, editable |-> FALSE]

Entries == {EntryA, EntryB, EntryRO}

None == [none |-> TRUE]

Free == [free |-> TRUE]

(***************************************************************************)
(* PathKey ordering (derived Ord on the normalized string)                 *)
(***************************************************************************)
RECURSIVE LexLess(_, _)
LexLess(a, b) ==
    IF a = <<>> THEN b # <<>>
    ELSE IF b = <<>> THEN FALSE
    ELSE IF Head(a) # Head(b) THEN Head(a) < Head(b)
    ELSE LexLess(Tail(a), Tail(b))

LexLeq(a, b) == a = b \/ LexLess(a, b)

starts_with(p, prefix) ==
    /\ Len(prefix) <= Len(p)
    /\ SubSeq(p, 1, Len(prefix)) = prefix

\* iteration order of an im::OrdSet<PathKey>: ascending
RECURSIVE OrdSetIter(_)
OrdSetIter(S) ==
    IF S = {} THEN <<>>
    ELSE LET m == CHOOSE x \in S : \A y \in S : LexLeq(x, y)
         IN <<m>> \o OrdSetIter(S \ {m})

RECURSIVE take_while(_, _)
take_while(s, prefix) ==
    IF s = <<>> \/ ~starts_with(Head(s), prefix) THEN <<>>
    ELSE <<Head(s)>> \o take_while(Tail(s), prefix)

(***************************************************************************)
(* Index (fs/index.rs): files is the key -> entry map, prefixes the        *)
(* ordered key set                                                         *)
(***************************************************************************)
\* an im::HashMap<PathKey, FileEntry> as a function on Paths: None marks an absent key
EmptyMap == [k \in Paths |-> None]

IndexDefault == [files |-> EmptyMap, prefixes |-> {}]

MapInsert(m, k, e) == [x \in Paths |-> IF x = k THEN e ELSE m[x]]

MapRemove(m, k) == [x \in Paths |-> IF x = k THEN None ELSE m[x]]

\* the keys of the map
Keys(m) == {k \in Paths : m[k] # None}

get_file(i, k) == i.files[k]

is_editable(e) == e.editable

\* remove from the map only
take_file(i, k) ==
    [index |-> [files |-> MapRemove(i.files, k), prefixes |-> i.prefixes],
     res |-> get_file(i, k)]

\* upsert_file without the read-only check
upsert_file_Overwrite(i, k, e) ==
    [index |-> [files |-> MapInsert(i.files, k, e), prefixes |-> i.prefixes \cup {k}],
     res |-> "Ok"]

upsert_file(i, k, e) ==
    IF get_file(i, k) # None /\ ~is_editable(get_file(i, k))
    THEN [index |-> i, res |-> "ReadOnlyFile"]
    ELSE [index |-> [files |-> MapInsert(i.files, k, e),
                     prefixes |-> i.prefixes \cup {k}],
          res |-> "Ok"]

\* remove_file that forgets the ordered key set
remove_file_KeepPrefix(i, k) ==
    [index |-> [files |-> MapRemove(i.files, k), prefixes |-> i.prefixes],
     res |-> i.files[k] # None]

remove_file(i, k) ==
    LET existed == i.files[k] # None
    IN [index |-> [files |-> MapRemove(i.files, k),
                   prefixes |-> IF existed THEN i.prefixes \ {k} ELSE i.prefixes],
        res |-> existed]

paths_by_prefix(i, prefix) ==
    take_while(OrdSetIter({p \in i.prefixes : LexLeq(prefix, p)}), prefix)

len(i) == Cardinality(Keys(i.files))

RECURSIVE FilterMapGet(_, _)
FilterMapGet(i, s) ==
    IF s = <<>> THEN <<>>
    ELSE IF get_file(i, Head(s)) = None THEN FilterMapGet(i, Tail(s))
    ELSE <<<<Head(s), get_file(i, Head(s))>>>> \o FilterMapGet(i, Tail(s))

iter_sorted(i) == FilterMapGet(i, OrdSetIter(i.prefixes))

(***************************************************************************)
(* The Index driven through its own API                                    *)
(***************************************************************************)
IndexUpsert(k, e) ==
    /\ ix' = upsert_file(ix, k, e).index
    /\ ixret' = [op |-> "upsert_file", key |-> k, entry |-> e,
                 res |-> upsert_file(ix, k, e).res]
    /\ UNCHANGED mgrVars

IndexRemove(k) ==
    /\ ix' = remove_file(ix, k).index
    /\ ixret' = [op |-> "remove_file", key |-> k, entry |-> None,
                 res |-> remove_file(ix, k).res]
    /\ UNCHANGED mgrVars

IndexTake(k) ==
    /\ ix' = take_file(ix, k).index
    /\ ixret' = [op |-> "take_file", key |-> k, entry |-> None,
                 res |-> take_file(ix, k).res]
    /\ UNCHANGED mgrVars

(***************************************************************************)
(* Text helpers: str::lines(), TextDiff::from_lines and LineIndex::build   *)
(***************************************************************************)
\* b'\n'
NL == 10

\* similar::TextDiff::from_lines tokens: each line with its terminator
RECURSIVE SplitLines(_, _)
SplitLines(b, cur) ==
    IF b = <<>> THEN (IF cur = <<>> THEN <<>> ELSE <<cur>>)
    ELSE IF Head(b) = NL THEN <<Append(cur, NL)>> \o SplitLines(Tail(b), <<>>)
    ELSE SplitLines(Tail(b), Append(cur, Head(b)))

\* content.lines().count()
LinesCount(b) == Len(SplitLines(b, <<>>))

\* length of the longest common subsequence of two token sequences
RECURSIVE LcsLen(_, _)
LcsLen(a, b) ==
    IF a = <<>> \/ b = <<>> THEN 0
    ELSE IF Head(a) = Head(b) THEN 1 + LcsLen(Tail(a), Tail(b))
    ELSE LET x == LcsLen(Tail(a), b)
             y == LcsLen(a, Tail(b))
         IN IF x >= y THEN x ELSE y

\* compute_diff(..).stats: lines of the minimal line edit script
DiffStats(original, modified) ==
    LET a == SplitLines(original, <<>>)
        b == SplitLines(modified, <<>>)
        c == LcsLen(a, b)
    IN [lines_added |-> Len(b) - c, lines_removed |-> Len(a) - c]

\* ascending sequence of a set of byte offsets
RECURSIVE OrdSeqOfOffsets(_)
OrdSeqOfOffsets(S) ==
    IF S = {} THEN <<>>
    ELSE LET m == CHOOSE x \in S : \A y \in S : x <= y
         IN <<m>> \o OrdSeqOfOffsets(S \ {m})

\* LineIndex::build: byte offsets of the line starts, and the total length
LineIndexBuild(bytes) ==
    [line_starts |-> <<0>> \o
         OrdSeqOfOffsets({j \in 1..Len(bytes) : bytes[j] = NL /\ j < Len(bytes)}),
     total_bytes |-> Len(bytes)]

(***************************************************************************)
(* Arc<Index> allocations. A manager state m is the record of heap,        *)
(* active, staged and cache; h gives the handles each thread holds.       *)
(***************************************************************************)
Addrs == 1..(NumReaders + NumClients + 2)

\* Arc::strong_count of the allocation at a
RefCount(m, h, a) ==
    (IF m.active = a THEN 1 ELSE 0)
    + (IF m.staged # None /\ m.staged.snapshot = a THEN 1 ELSE 0)
    + Cardinality({r \in DOMAIN h : a \in h[r]})

\* dropping the last Arc frees the allocation
Collect(m, h) ==
    [m EXCEPT !.heap = [a \in Addrs |-> IF RefCount(m, h, a) > 0 THEN m.heap[a] ELSE Free]]

FreshAddr(m) == CHOOSE a \in Addrs : m.heap[a] = Free /\ \A b \in Addrs : m.heap[b] = Free => a <= b

\* make_mut that never clones
make_mut_InPlace(m, h) == m

\* make_mut that counts the manager's own references only
make_mut_IgnoreHandles(m, h) ==
    IF RefCount(m, [x \in DOMAIN h |-> {}], m.staged.snapshot) = 1 THEN m
    ELSE [m EXCEPT !.heap[FreshAddr(m)] = m.heap[m.staged.snapshot],
                   !.staged.snapshot = FreshAddr(m)]

\* Arc::make_mut(&mut staged.snapshot): mutate in place when uniquely owned,
\* else clone the Index into a new allocation and point the session at it
make_mut(m, h) ==
    IF RefCount(m, h, m.staged.snapshot) = 1 THEN m
    ELSE [m EXCEPT !.heap[FreshAddr(m)] = m.heap[m.staged.snapshot],
                   !.staged.snapshot = FreshAddr(m)]

NoStats == [k \in Paths |-> None]

(***************************************************************************)
(* IndexManager operations (fs/manager.rs) as functions of the manager     *)
(* state: each yields the state after the call and the call's result       *)
(***************************************************************************)
begin_staging(m, h) ==
    IF m.staged # None THEN [m |-> m, res |-> "Ok"]
    ELSE [m |-> [m EXCEPT !.staged = [snapshot |-> m.active,
                                      modified |-> {},
                                      change_stats |-> NoStats]],
          res |-> "Ok"]

\* stage_file that writes into the active index
stage_file_IntoActive(m, h, k, e) ==
    IF m.staged = None THEN [m |-> m, res |-> "StagingNotActive"]
    ELSE [m |-> [m EXCEPT !.staged.modified = @ \cup {k},
                          !.cache = {c \in @ : c.path # k},
                          !.heap[m.active] = upsert_file(m.heap[m.active], k, e).index],
          res |-> upsert_file(m.heap[m.active], k, e).res]

stage_file(m, h, k, e) ==
    IF m.staged = None THEN [m |-> m, res |-> "StagingNotActive"]
    ELSE LET m1 == make_mut(m, h)
             a == m1.staged.snapshot
             up == upsert_file(m1.heap[a], k, e)
         IN [m |-> [m1 EXCEPT !.staged.modified = @ \cup {k},
                              !.cache = {c \in @ : c.path # k},
                              !.heap[a] = up.index],
             res |-> up.res]

\* statistics that add each call's diff to the entry already stored
update_line_stats_Accumulate(m, h, k, current_line_count) ==
    IF m.staged = None THEN [m |-> m, res |-> "StagingNotActive"]
    ELSE LET ae == get_file(m.heap[m.active], k)
             original == IF ae = None THEN <<>> ELSE ae.bytes
             se == get_file(m.heap[m.staged.snapshot], k)
             cur == IF se = None THEN <<>> ELSE se.bytes
             d == DiffStats(original, cur)
             old == m.staged.change_stats[k]
         IN [m |-> [m EXCEPT !.staged.change_stats[k] =
                        [lines_added |->
                            d.lines_added + (IF old = None THEN 0 ELSE old.lines_added),
                         lines_removed |->
                            d.lines_removed + (IF old = None THEN 0 ELSE old.lines_removed),
                         original_line_count |-> LinesCount(original),
                         current_line_count |-> current_line_count]],
             res |-> "Ok"]

update_line_stats(m, h, k, current_line_count) ==
    IF m.staged = None THEN [m |-> m, res |-> "StagingNotActive"]
    ELSE LET ae == get_file(m.heap[m.active], k)
             original == IF ae = None THEN <<>> ELSE ae.bytes
             se == get_file(m.heap[m.staged.snapshot], k)
             cur == IF se = None THEN <<>> ELSE se.bytes
             d == DiffStats(original, cur)
         IN [m |-> [m EXCEPT !.staged.change_stats[k] =
                        [lines_added |-> d.lines_added,
                         lines_removed |-> d.lines_removed,
                         original_line_count |-> LinesCount(original),
                         current_line_count |-> current_line_count]],
             res |-> "Ok"]

\* a removal that keeps the change-stats entry of the key
remove_staged_file_KeepStats(m, h, k) ==
    IF m.staged = None THEN [m |-> m, res |-> "StagingNotActive"]
    ELSE LET m1 == make_mut(m, h)
             a == m1.staged.snapshot
         IN [m |-> [m1 EXCEPT !.staged.modified = @ \cup {k},
                              !.cache = {c \in @ : c.path # k},
                              !.heap[a] = remove_file(m1.heap[a], k).index],
             res |-> "Ok"]

remove_staged_file(m, h, k) ==
    IF m.staged = None THEN [m |-> m, res |-> "StagingNotActive"]
    ELSE LET m1 == make_mut(m, h)
             a == m1.staged.snapshot
         IN [m |-> [m1 EXCEPT !.staged.modified = @ \cup {k},
                              !.staged.change_stats[k] = None,
                              !.cache = {c \in @ : c.path # k},
                              !.heap[a] = remove_file(m1.heap[a], k).index],
             res |-> "Ok"]

\* a cache clear that clears nothing
clear_line_index_cache_Noop(m) == m

clear_line_index_cache(m) == [m EXCEPT !.cache = {}]

\* promote_staged that drops the session without publishing it
promote_staged_NoStore(m, h) ==
    IF m.staged = None THEN [m |-> m, res |-> "StagingNotActive"]
    ELSE [m |-> Collect(clear_line_index_cache([m EXCEPT !.staged = None]), h),
          res |-> "Ok"]

\* promote_staged that clears the cache before it looks for the session
promote_staged_ClearFirst(m, h) ==
    IF m.staged = None THEN [m |-> clear_line_index_cache(m), res |-> "StagingNotActive"]
    ELSE [m |-> Collect(clear_line_index_cache(
                    [m EXCEPT !.active = m.staged.snapshot, !.staged = None]), h),
          res |-> "Ok"]

promote_staged(m, h) ==
    IF m.staged = None THEN [m |-> m, res |-> "StagingNotActive"]
    ELSE [m |-> Collect(clear_line_index_cache(
                    [m EXCEPT !.active = m.staged.snapshot, !.staged = None]), h),
          res |-> "Ok"]

\* revert_staged that resets the snapshot and keeps the session
revert_staged_KeepSession(m, h) ==
    IF m.staged = None THEN [m |-> m, res |-> "StagingNotActive"]
    ELSE [m |-> Collect([m EXCEPT !.staged.snapshot = m.active], h), res |-> "Ok"]

revert_staged(m, h) ==
    IF m.staged = None THEN [m |-> m, res |-> "StagingNotActive"]
    ELSE [m |-> Collect([m EXCEPT !.staged = None], h), res |-> "Ok"]

\* for (key, entry) in files { self.stage_file(key, entry)?; }
RECURSIVE StageAll(_, _, _)
StageAll(m, h, files) ==
    IF files = <<>> THEN [m |-> m, res |-> "Ok"]
    ELSE LET r == stage_file(m, h, Head(files)[1], Head(files)[2])
         IN IF r.res # "Ok" THEN r ELSE StageAll(r.m, h, Tail(files))

load_files(m, h, files) ==
    LET m0 == Collect([m EXCEPT !.staged = None], h)
        b == begin_staging(m0, h)
        s == StageAll(b.m, h, files)
    IN IF s.res # "Ok" THEN s ELSE promote_staged(s.m, h)

add_files_to_staging(m, h, files) ==
    IF m.staged = None THEN [m |-> m, res |-> "StagingNotActive"]
    ELSE StageAll(m, h, files)

get_staged_modifications(m) ==
    IF m.staged = None THEN [res |-> "StagingNotActive"]
    ELSE [res |-> "Ok",
          val |-> {<<p, get_file(m.heap[m.staged.snapshot], p).bytes>> :
                      p \in {q \in m.staged.modified :
                                get_file(m.heap[m.staged.snapshot], q) # None}}]

get_staged_deletions(m) ==
    IF m.staged = None THEN [res |-> "StagingNotActive"]
    ELSE [res |-> "Ok",
          val |-> {p \in m.staged.modified :
                      get_file(m.heap[m.staged.snapshot], p) = None}]

get_change_stats(m) ==
    IF m.staged = None THEN [res |-> "StagingNotActive"]
    ELSE [res |-> "Ok",
          val |-> {<<p, m.staged.change_stats[p]>> : p \in Keys(m.staged.change_stats)}]

get_file_change_stats(m, path) ==
    IF m.staged = None THEN [res |-> "StagingNotActive"]
    ELSE [res |-> "Ok", val |-> m.staged.change_stats[path]]

\* staged_index(): a clone of the session's Arc, or the error
staged_index(m) ==
    IF m.staged = None THEN [res |-> "StagingNotActive", val |-> {}]
    ELSE [res |-> "Ok", val |-> {m.staged.snapshot}]

\* get_line_index(path, index): cache-first by (path, mtime), built on a miss
get_line_index(m, path, index) ==
    LET entry == get_file(index, path)
    IN IF entry = None THEN m
       ELSE IF \E c \in m.cache : c.path = path /\ c.mtime = entry.mtime THEN m
       ELSE [m EXCEPT !.cache = @ \cup {[path |-> path, mtime |-> entry.mtime,
                                         line_index |-> LineIndexBuild(entry.bytes)]}]

MgrIdle ==
    /\ heap = [a \in Addrs |-> IF a = 1 THEN IndexDefault ELSE Free]
    /\ active = 1
    /\ staged = None
    /\ cache = {}
    /\ handle = [r \in Readers |-> {}]
    /\ seen = [r \in Readers |-> None]
    /\ call = [op |-> "none", arg |-> <<>>, res |-> "Ok"]
    /\ ncalls = 0

\* no Orchestrator request in flight
OrchIdle ==
    orch = [c \in Clients |->
               [pc |-> "idle", req |-> None, exists |-> FALSE, staged |-> {},
                original_lines |-> 0, resp |-> [res |-> "none", created |-> FALSE]]]

\* no text tool called
ToolIdle == tool = [fn |-> "none", in |-> None, out |-> None]

IndexInit ==
    /\ ix = IndexDefault
    /\ ixret = [op |-> "none", key |-> <<>>, entry |-> None, res |-> None]

Init == IndexInit /\ MgrIdle /\ OrchIdle /\ ToolIdle

\* upsert_file and remove_file only
NextUpsertRemove ==
    \/ \E k \in Paths, e \in Entries : IndexUpsert(k, e)
    \/ \E k \in Paths : IndexRemove(k)

SpecUpsertRemove == Init /\ [][NextUpsertRemove]_vars

\* every mutating Index operation
NextIndex ==
    \/ \E k \in Paths, e \in Entries : IndexUpsert(k, e)
    \/ \E k \in Paths : IndexRemove(k)
    \/ \E k \in Paths : IndexTake(k)

SpecIndex == Init /\ [][NextIndex]_vars

(***************************************************************************)
(* The manager driven by one writer thread and the readers                 *)
(***************************************************************************)
Cur == [heap |-> heap, active |-> active, staged |-> staged, cache |-> cache]

\* every Arc<Index> held outside the manager: the readers' handles and the
\* handles the Orchestrator requests in flight hold
HoldersWith(o) ==
    [x \in Readers \cup Clients |-> IF x \in Readers THEN handle[x] ELSE o[x].staged]

Holders == HoldersWith(orch)

\* the index a pointer refers to
ActiveIdx == heap[active]

Commit(r, name, arg) ==
    /\ ncalls < MaxCalls
    /\ ncalls' = ncalls + 1
    /\ heap' = r.m.heap
    /\ active' = r.m.active
    /\ staged' = r.m.staged
    /\ cache' = r.m.cache
    /\ call' = [op |-> name, arg |-> arg, res |-> r.res]
    /\ UNCHANGED <<handle, seen, ix, ixret, orch, tool>>

\* a getter: nothing but the result
Return(r, name) ==
    /\ ncalls < MaxCalls
    /\ ncalls' = ncalls + 1
    /\ call' = [op |-> name, arg |-> <<>>, res |-> r.res]
    /\ UNCHANGED <<heap, active, staged, cache, handle, seen, ix, ixret, orch, tool>>

\* batches of (key, entry) pairs
RECURSIVE SeqsUpTo(_, _)
SeqsUpTo(S, n) ==
    IF n = 0 THEN {<<>>}
    ELSE SeqsUpTo(S, n - 1) \cup
         {Append(q, x) : q \in {t \in SeqsUpTo(S, n - 1) : Len(t) = n - 1}, x \in S}

\* the (key, entry) pairs batches are made of
BatchFiles == {<<<<1>>, EntryA>>, <<<<1, 2>>, EntryB>>, <<<<1>>, EntryRO>>}

Batches == SeqsUpTo(BatchFiles, MaxBatch)

\* current_line_count arguments of update_line_stats
LineCounts == {1, 2}

BeginStaging == Commit(begin_staging(Cur, Holders), "begin_staging", <<>>)

StageFile(k, e) == Commit(stage_file(Cur, Holders, k, e), "stage_file", <<>>)

UpdateLineStats(k, n) ==
    Commit(update_line_stats(Cur, Holders, k, n), "update_line_stats", <<>>)

RemoveStagedFile(k) ==
    Commit(remove_staged_file(Cur, Holders, k), "remove_staged_file", <<>>)

PromoteStaged == Commit(promote_staged(Cur, Holders), "promote_staged", <<>>)

RevertStaged == Commit(revert_staged(Cur, Holders), "revert_staged", <<>>)

LoadFiles(files) == Commit(load_files(Cur, Holders, files), "load_files", files)

AddFilesToStaging(files) ==
    Commit(add_files_to_staging(Cur, Holders, files), "add_files_to_staging", <<>>)

GetStagedModifications == Return(get_staged_modifications(Cur), "get_staged_modifications")

GetStagedDeletions == Return(get_staged_deletions(Cur), "get_staged_deletions")

GetChangeStats == Return(get_change_stats(Cur), "get_change_stats")

GetFileChangeStats(k) == Return(get_file_change_stats(Cur, k), "get_file_change_stats")

\* the index behind the handle a reader holds
Held(r) == heap[CHOOSE a \in handle[r] : TRUE]

\* a reader takes a handle to the active index: active.load_full()
ActiveIndex(r) ==
    /\ handle[r] = {}
    /\ handle' = [handle EXCEPT ![r] = {active}]
    /\ seen' = [seen EXCEPT ![r] = [via |-> "active_index", index |-> heap[active]]]
    /\ UNCHANGED <<heap, active, staged, cache, call, ncalls, ix, ixret, orch, tool>>

\* a reader takes a handle to the staged index
StagedIndex(r) ==
    /\ handle[r] = {}
    /\ ncalls < MaxCalls
    /\ ncalls' = ncalls + 1
    /\ call' = [op |-> "staged_index", arg |-> <<>>, res |-> staged_index(Cur).res]
    /\ handle' = [handle EXCEPT ![r] = staged_index(Cur).val]
    /\ seen' = [seen EXCEPT ![r] =
                   IF staged = None THEN None
                   ELSE [via |-> "staged_index", index |-> heap[staged.snapshot]]]
    /\ UNCHANGED <<heap, active, staged, cache, ix, ixret, orch, tool>>

\* a reader drops its handle
DropHandle(r) ==
    /\ handle[r] # {}
    /\ handle' = [handle EXCEPT ![r] = {}]
    /\ seen' = [seen EXCEPT ![r] = None]
    /\ UNCHANGED <<active, staged, cache, call, ncalls, ix, ixret, orch, tool>>
    /\ heap' = Collect(Cur, Holders').heap

\* a reader asks for the line index of a path in the index it holds
GetLineIndex(r, path) ==
    /\ handle[r] # {}
    /\ cache' = get_line_index(Cur, path, Held(r)).cache
    /\ UNCHANGED <<heap, active, staged, handle, seen, call, ncalls, ix, ixret, orch, tool>>

Next ==
    \/ BeginStaging
    \/ \E k \in MgrPaths, e \in Entries : StageFile(k, e)
    \/ \E k \in MgrPaths, n \in LineCounts : UpdateLineStats(k, n)
    \/ \E k \in MgrPaths : RemoveStagedFile(k)
    \/ PromoteStaged
    \/ RevertStaged
    \/ \E files \in Batches : LoadFiles(files)
    \/ \E files \in Batches : AddFilesToStaging(files)
    \/ GetStagedModifications
    \/ GetStagedDeletions
    \/ GetChangeStats
    \/ \E k \in MgrPaths : GetFileChangeStats(k)
    \/ \E r \in Readers : ActiveIndex(r)
    \/ \E r \in Readers : StagedIndex(r)
    \/ \E r \in Readers : DropHandle(r)
    \/ \E r \in Readers, k \in MgrPaths : GetLineIndex(r, k)

Spec == Init /\ [][Next]_vars

(***************************************************************************)
(* Orchestrator::handle_create (conduit-wasm/src/orchestrator.rs), run by   *)
(* client threads: every IndexManager call in it locks the staging mutex    *)
(* for the length of that call only                                         *)
(***************************************************************************)
\* current_unix_timestamp() values
Timestamps == {3}

\* CreateRequest values (content given), with the time the handler reads
CreateRequests ==
    [path : {<<1>>}, content : {<<1>>, <<2, 10, 2>>}, allow_overwrite : BOOLEAN,
     now : Timestamps]

\* bytes.iter().filter(|&&b| b == b'\n').count() + 1
NewlinesPlusOne(bytes) == Cardinality({j \in 1..Len(bytes) : bytes[j] = NL}) + 1

\* a client step leaves the manager in state m and the clients in state o
ClientCommit(m, o) ==
    /\ heap' = m.heap
    /\ active' = m.active
    /\ staged' = m.staged
    /\ cache' = m.cache
    /\ orch' = o
    /\ UNCHANGED <<handle, seen, call, ncalls, ix, ixret, tool>>

\* the handler returns: its locals, the staged handle among them, are dropped
Done(c, res, created) ==
    [orch EXCEPT ![c].pc = "done", ![c].staged = {},
                 ![c].resp = [res |-> res, created |-> created]]

\* let staged = staged_index()?; let exists = staged.get_file(path).is_some();
\* if exists && !allow_overwrite { return Err(FileAlreadyExists) }
HandleCreateBegin(c, req) ==
    /\ orch[c].pc = "idle"
    /\ LET si == staged_index(Cur)
           exists == si.res = "Ok" /\ get_file(heap[staged.snapshot], req.path) # None
           o == IF si.res # "Ok" THEN [Done(c, si.res, FALSE) EXCEPT ![c].req = req]
                ELSE IF exists /\ ~req.allow_overwrite
                     THEN [Done(c, "FileAlreadyExists", FALSE) EXCEPT ![c].req = req]
                ELSE [orch EXCEPT ![c].pc = "stage", ![c].req = req,
                                  ![c].exists = exists, ![c].staged = si.val]
       IN ClientCommit(Cur, o)

\* self.index_manager.stage_file(req.path.clone(), entry)?
HandleCreateStage(c) ==
    /\ orch[c].pc = "stage"
    /\ LET req == orch[c].req
           entry == [bytes |-> req.content, mtime |-> req.now, editable |-> TRUE]
           r == stage_file(Cur, Holders, req.path, entry)
           o == IF r.res # "Ok" THEN Done(c, r.res, FALSE)
                ELSE [orch EXCEPT ![c].pc = IF orch[c].exists THEN "read_active"
                                            ELSE "stats"]
       IN ClientCommit(Collect(r.m, HoldersWith(o)), o)

\* overwriting: if let Ok(active_content) = get_file_content(path, Active)
HandleCreateReadActive(c) ==
    /\ orch[c].pc = "read_active"
    /\ LET ae == get_file(ActiveIdx, orch[c].req.path)
           o == IF ae = None THEN Done(c, "Ok", ~orch[c].exists)
                ELSE [orch EXCEPT ![c].pc = "stats",
                                  ![c].original_lines = LinesCount(ae.bytes)]
       IN ClientCommit(Collect(Cur, HoldersWith(o)), o)

\* update_line_stats(path, .., line_count)?; Ok(CreateResponse { created: !exists })
HandleCreateStats(c) ==
    /\ orch[c].pc = "stats"
    /\ LET req == orch[c].req
           r == update_line_stats(Cur, Holders, req.path, NewlinesPlusOne(req.content))
           o == IF r.res # "Ok" THEN Done(c, r.res, FALSE)
                ELSE Done(c, "Ok", ~orch[c].exists)
       IN ClientCommit(Collect(r.m, HoldersWith(o)), o)

\* clients creating files in the sessions a writer begins and promotes: nothing
\* but a Create request writes a file, and nothing removes one
NextCreate ==
    \/ BeginStaging
    \/ PromoteStaged
    \/ \E c \in Clients, req \in CreateRequests : HandleCreateBegin(c, req)
    \/ \E c \in Clients : HandleCreateStage(c)
    \/ \E c \in Clients : HandleCreateReadActive(c)
    \/ \E c \in Clients : HandleCreateStats(c)

SpecCreate == Init /\ [][NextCreate]_vars

(***************************************************************************)
(* apply_line_operations (tools/line_ops.rs)                               *)
(***************************************************************************)
\* longest content handed to a text tool
MaxContentLen == 3

\* most line operations in one call
MaxOps == 2

\* largest line number in an operation
MaxLine == 3

RECURSIVE SeqsOver(_, _)
SeqsOver(S, n) ==
    IF n = 0 THEN {<<>>}
    ELSE SeqsOver(S, n - 1) \cup
         {Append(q, x) : q \in {t \in SeqsOver(S, n - 1) : Len(t) = n - 1}, x \in S}

\* text: the byte 1 and the newline
Contents == SeqsOver({1, NL}, MaxContentLen)

\* inserted and replacement text: "", "a", "\n", "a\na"
OpContents == {<<>>, <<1>>, <<NL>>, <<1, NL, 1>>}

\* LineOperation values; the Insert variants keep their line in start
LineOperations ==
    [kind : {"ReplaceRange"}, start : 0..MaxLine, end : 0..MaxLine, content : OpContents]
    \cup [kind : {"DeleteRange"}, start : 0..MaxLine, end : 0..MaxLine, content : {<<>>}]
    \cup [kind : {"InsertBefore", "InsertAfter"}, start : 0..MaxLine, end : {0},
          content : OpContents]

\* str::lines(): the lines without their terminators; a final newline ends the
\* last line and starts no new one
lines(b) ==
    LET t == SplitLines(b, <<>>)
    IN [j \in 1..Len(t) |->
           IF t[j][Len(t[j])] = NL THEN SubSeq(t[j], 1, Len(t[j]) - 1) ELSE t[j]]

\* content.ends_with('\n')
ends_with_newline(b) == b # <<>> /\ b[Len(b)] = NL

\* lines.join("\n")
RECURSIVE join(_)
join(ls) ==
    IF ls = <<>> THEN <<>>
    ELSE IF Len(ls) = 1 THEN ls[1]
    ELSE ls[1] \o <<NL>> \o join(Tail(ls))

\* one step of the stable sort by start, descending
RECURSIVE InsertDesc(_, _)
InsertDesc(sorted, op) ==
    IF sorted = <<>> THEN <<op>>
    ELSE IF Head(sorted).start >= op.start THEN <<Head(sorted)>> \o InsertDesc(Tail(sorted), op)
    ELSE <<op>> \o sorted

\* the operations left in the order given
sort_by_Unsorted(ops) == ops

\* sorted_ops.sort_by(|a, b| b_start.cmp(&a_start))
RECURSIVE sort_by(_)
sort_by(ops) ==
    IF ops = <<>> THEN <<>>
    ELSE InsertDesc(sort_by(SubSeq(ops, 1, Len(ops) - 1)), ops[Len(ops)])

\* Vec::remove n times at index at (0-based)
RemoveAt(ls, at, n) == SubSeq(ls, 1, at) \o SubSeq(ls, at + n + 1, Len(ls))

\* Vec::insert of each new line at index at + i (0-based)
InsertAt(ls, at, new) == SubSeq(ls, 1, at) \o new \o SubSeq(ls, at + 1, Len(ls))

Min(a, b) == IF a <= b THEN a ELSE b

\* the body of the loop over the sorted operations; st holds lines and the totals
ApplyOne(st, op) ==
    LET n == Len(st.lines)
    IN CASE op.kind = "ReplaceRange" ->
              IF op.start > 0 /\ op.start <= n /\ op.start <= op.end
              THEN LET lines_to_remove == Min(op.end - op.start + 1, n - (op.start - 1))
                       removed == RemoveAt(st.lines, op.start - 1, lines_to_remove)
                       new_lines == IF op.content # <<>> THEN lines(op.content) ELSE <<>>
                   IN [lines |-> InsertAt(removed, op.start - 1, new_lines),
                       added |-> st.added + Len(new_lines),
                       removed |-> st.removed + lines_to_remove]
              ELSE st
         [] op.kind = "DeleteRange" ->
              IF op.start > 0 /\ op.start <= n /\ op.start <= op.end
              THEN LET lines_to_remove == Min(op.end - op.start + 1, n - (op.start - 1))
                   IN [st EXCEPT !.lines = RemoveAt(st.lines, op.start - 1, lines_to_remove),
                                 !.removed = st.removed + lines_to_remove]
              ELSE st
         [] op.kind = "InsertBefore" ->
              IF op.start > 0 /\ op.start <= n + 1
              THEN [st EXCEPT !.lines = InsertAt(st.lines, op.start - 1, lines(op.content)),
                              !.added = st.added + Len(lines(op.content))]
              ELSE st
         [] op.kind = "InsertAfter" ->
              IF op.start > 0 /\ op.start <= n
              THEN [st EXCEPT !.lines = InsertAt(st.lines, op.start, lines(op.content)),
                              !.added = st.added + Len(lines(op.content))]
              ELSE st

RECURSIVE ApplyAll(_, _)
ApplyAll(st, ops) ==
    IF ops = <<>> THEN st ELSE ApplyAll(ApplyOne(st, Head(ops)), Tail(ops))

\* apply_line_operations(content, operations) -> (modified_content, added, removed)
apply_line_operations(content, operations) ==
    LET st == ApplyAll([lines |-> lines(content), added |-> 0, removed |-> 0],
                       sort_by(operations))
        joined == join(st.lines)
    IN [content |-> IF ends_with_newline(content) /\ joined # <<>>
                    THEN Append(joined, NL) ELSE joined,
        added |-> st.added,
        removed |-> st.removed]

\* a caller about to apply a list of operations to a text
InitLineOps ==
    /\ IndexInit /\ MgrIdle /\ OrchIdle
    /\ tool \in {[fn |-> "input", in |-> [content |-> c, ops |-> o], out |-> None] :
                   c \in Contents, o \in SeqsOver(LineOperations, MaxOps)}

ApplyLineOperations ==
    /\ tool.fn = "input"
    /\ tool' = [fn |-> "apply_line_operations", in |-> tool.in,
                out |-> apply_line_operations(tool.in.content, tool.in.ops)]
    /\ UNCHANGED <<ix, ixret, heap, active, staged, cache, handle, seen, call, ncalls, orch>>

SpecLineOps == InitLineOps /\ [][ApplyLineOperations]_vars

(***************************************************************************)
(* LineIndex queries (tools/line_index.rs)                                 *)
(***************************************************************************)
Some(x) == [some |-> x]

\* byte buffers a LineIndex is built from
Buffers == SeqsOver({1, 2, NL}, MaxContentLen)

line_count(li) == Len(li.line_starts)

\* self.line_starts.get(line.checked_sub(1)?).copied()
byte_of_line_start(li, line) ==
    IF line < 1 THEN None
    ELSE IF line - 1 >= Len(li.line_starts) THEN None
    ELSE Some(li.line_starts[line])

\* line_starts.partition_point(|&s| s <= byte) on the ascending line_starts
partition_point(starts, byte) ==
    Cardinality({j \in 1..Len(starts) : starts[j] <= byte})

Max(a, b) == IF a >= b THEN a ELSE b

line_of_byte(li, byte) ==
    IF byte >= li.total_bytes THEN None
    ELSE Some(Max(partition_point(li.line_starts, byte), 1))

\* a caller about to index a buffer
InitLineIndex ==
    /\ IndexInit /\ MgrIdle /\ OrchIdle
    /\ tool \in {[fn |-> "input", in |-> [bytes |-> b], out |-> None] : b \in Buffers}

LineIndexBuildCall ==
    /\ tool.fn = "input"
    /\ tool' = [fn |-> "build", in |-> tool.in,
                out |-> [li |-> LineIndexBuild(tool.in.bytes)]]
    /\ UNCHANGED <<ix, ixret, heap, active, staged, cache, handle, seen, call, ncalls, orch>>

ByteOfLineStart(k) ==
    /\ tool.fn = "build"
    /\ tool' = [fn |-> "byte_of_line_start",
                in |-> [bytes |-> tool.in.bytes, line |-> k],
                out |-> [li |-> tool.out.li, start |-> byte_of_line_start(tool.out.li, k)]]
    /\ UNCHANGED <<ix, ixret, heap, active, staged, cache, handle, seen, call, ncalls, orch>>

\* line_of_byte on the offset byte_of_line_start returned
LineOfByte ==
    /\ tool.fn = "byte_of_line_start"
    /\ tool.out.start # None
    /\ tool' = [fn |-> "line_of_byte", in |-> tool.in,
                out |-> [li |-> tool.out.li, start |-> tool.out.start,
                         line |-> line_of_byte(tool.out.li, tool.out.start.some)]]
    /\ UNCHANGED <<ix, ixret, heap, active, staged, cache, handle, seen, call, ncalls, orch>>

NextLineIndex ==
    \/ LineIndexBuildCall
    \/ \E k \in 0..(MaxLine + 1) : ByteOfLineStart(k)
    \/ LineOfByte

SpecLineIndex == InitLineIndex /\ [][NextLineIndex]_vars

(***************************************************************************)
(* Replace plans (tools/replace.rs). The regex engine is an outside crate:  *)
(* what it finds is an arbitrary sequence of candidate spans of the         *)
(* haystack, and the template is "$0" (the bytes of the match) or a literal *)
(***************************************************************************)
\* most candidate matches handed to one plan
MaxCands == 3

\* ByteSpan values (half-open, 0-based) inside a haystack
Spans(haystack) ==
    {sp \in [start : 0..Len(haystack), end : 0..Len(haystack)] : sp.start <= sp.end}

\* longest haystack handed to one plan
MaxHaystack == 2

\* haystack: &[u8]
Haystacks == SeqsOver({1, NL}, MaxHaystack)

\* replacement templates: "$0", and the literal "a"
Templates == {[whole |-> TRUE, bytes |-> <<>>], [whole |-> FALSE, bytes |-> <<1>>]}

\* &haystack[span.start..span.end]
Slice(haystack, from, to) == SubSeq(haystack, from + 1, to)

\* memchr_iter(b'\n', bytes).count()
count_newlines(bytes) == Cardinality({j \in 1..Len(bytes) : bytes[j] = NL})

\* re.replace_at(.., replacement_tpl, &mut tmp): the template interpolated
\* with the captures of the match
replace_at(haystack, span, tpl) ==
    IF tpl.whole THEN Slice(haystack, span.start, span.end) ELSE tpl.bytes

\* the EditOp pushed for one match
EditOp(haystack, span, tpl) ==
    [span |-> span,
     replacement |-> replace_at(haystack, span, tpl),
     line_shift |-> count_newlines(replace_at(haystack, span, tpl))
                      - count_newlines(Slice(haystack, span.start, span.end))]

\* one step of the stable sort by span.start, ascending
RECURSIVE InsertByStart(_, _)
InsertByStart(sorted, op) ==
    IF sorted = <<>> THEN <<op>>
    ELSE IF Head(sorted).span.start <= op.span.start
         THEN <<Head(sorted)>> \o InsertByStart(Tail(sorted), op)
    ELSE <<op>> \o sorted

\* ops.sort_by_key(|op| op.span.start)
RECURSIVE sort_by_key(_)
sort_by_key(ops) ==
    IF ops = <<>> THEN <<>>
    ELSE InsertByStart(sort_by_key(SubSeq(ops, 1, Len(ops) - 1)), ops[Len(ops)])

\* an overlap filter that compares with the start of the last kept op
RECURSIVE DropOverlaps_ByStart(_, _)
DropOverlaps_ByStart(ops, last_end) ==
    IF ops = <<>> THEN <<>>
    ELSE IF Head(ops).span.start >= last_end
         THEN <<Head(ops)>> \o DropOverlaps_ByStart(Tail(ops), Head(ops).span.start)
    ELSE DropOverlaps_ByStart(Tail(ops), last_end)

\* for op in ops { if op.span.start >= last_end { last_end = op.span.end; push } }
RECURSIVE DropOverlaps(_, _)
DropOverlaps(ops, last_end) ==
    IF ops = <<>> THEN <<>>
    ELSE IF Head(ops).span.start >= last_end
         THEN <<Head(ops)>> \o DropOverlaps(Tail(ops), Head(ops).span.end)
    ELSE DropOverlaps(Tail(ops), last_end)

\* plan_in_bytes: an EditOp per match, then the global sort and filter
plan_in_bytes(haystack, matches, tpl) ==
    LET ops == [j \in 1..Len(matches) |-> EditOp(haystack, matches[j], tpl)]
    IN IF Len(ops) > 1 THEN [ops |-> DropOverlaps(sort_by_key(ops), 0)]
       ELSE [ops |-> ops]

\* the copy loop of apply_plan that leaves the cursor at the start of the op
RECURSIVE CopyOps_CursorAtStart(_, _, _, _)
CopyOps_CursorAtStart(haystack, ops, cursor, out) ==
    IF ops = <<>>
    THEN IF cursor < Len(haystack) THEN out \o Slice(haystack, cursor, Len(haystack))
         ELSE out
    ELSE LET op == Head(ops)
             o1 == IF op.span.start > cursor
                   THEN out \o Slice(haystack, cursor, op.span.start) ELSE out
         IN CopyOps_CursorAtStart(haystack, Tail(ops), op.span.start,
                                  o1 \o op.replacement)

\* the copy loop of apply_plan and the tail after it
RECURSIVE CopyOps(_, _, _, _)
CopyOps(haystack, ops, cursor, out) ==
    IF ops = <<>>
    THEN IF cursor < Len(haystack) THEN out \o Slice(haystack, cursor, Len(haystack))
         ELSE out
    ELSE LET op == Head(ops)
             o1 == IF op.span.start > cursor
                   THEN out \o Slice(haystack, cursor, op.span.start) ELSE out
         IN CopyOps(haystack, Tail(ops), op.span.end, o1 \o op.replacement)

apply_plan(haystack, plan) ==
    IF plan.ops = <<>> THEN haystack ELSE CopyOps(haystack, plan.ops, 0, <<>>)

\* a caller about to plan a replace over a haystack
InitReplace ==
    /\ IndexInit /\ MgrIdle /\ OrchIdle
    /\ \E h \in Haystacks, t \in Templates :
          \E m \in SeqsOver(Spans(h), MaxCands) :
              tool = [fn |-> "input",
                      in |-> [haystack |-> h, matches |-> m, tpl |-> t],
                      out |-> None]

PlanInBytes ==
    /\ tool.fn = "input"
    /\ tool' = [fn |-> "plan_in_bytes", in |-> tool.in,
                out |-> [plan |-> plan_in_bytes(tool.in.haystack, tool.in.matches,
                                                tool.in.tpl)]]
    /\ UNCHANGED <<ix, ixret, heap, active, staged, cache, handle, seen, call, ncalls, orch>>

ApplyPlan ==
    /\ tool.fn = "plan_in_bytes"
    /\ tool' = [fn |-> "apply_plan", in |-> tool.in,
                out |-> [plan |-> tool.out.plan,
                         bytes |-> apply_plan(tool.in.haystack, tool.out.plan)]]
    /\ UNCHANGED <<ix, ixret, heap, active, staged, cache, handle, seen, call, ncalls, orch>>

NextReplace ==
    \/ PlanInBytes
    \/ ApplyPlan

SpecReplace == InitReplace /\ [][NextReplace]_vars

(***************************************************************************)
(* Orchestrator::handle_replace_lines, one request at a time                *)
(***************************************************************************)
\* the (start_line, end_line, content) triples of a request, as ReplaceRange values
Replacements ==
    [kind : {"ReplaceRange"}, start : 1..2, end : 1..2, content : {<<2>>, <<1, NL, 1>>}]

\* ReplaceLinesRequest values, with the time the handler reads
ReplaceLinesRequests ==
    [path : {<<1>>}, replacements : {<<r>> : r \in Replacements}, now : Timestamps]

\* the handles h with the snapshot a captured StagingState keeps alive
WithCaptured(h, captured) ==
    [x \in DOMAIN h \cup {0} |->
        IF x # 0 THEN h[x]
        ELSE IF captured = None THEN {} ELSE {captured.snapshot}]

\* with_snapshot(f): capture the staging state, run f, restore the captured
\* state if f fails; r is what f returned, run while the captured state is held
with_snapshot(captured, h, r) ==
    IF r.res = "Ok" THEN [r EXCEPT !.m = Collect(r.m, h)]
    ELSE [r EXCEPT !.m = Collect([r.m EXCEPT !.staged = captured], h)]

\* get_file_content(path, Staged)
get_file_content_staged(m, path) ==
    IF staged_index(m).res # "Ok" THEN [res |-> staged_index(m).res, content |-> <<>>]
    ELSE IF get_file(m.heap[m.staged.snapshot], path) = None
         THEN [res |-> "InvalidPath", content |-> <<>>]
    ELSE [res |-> "Ok", content |-> get_file(m.heap[m.staged.snapshot], path).bytes]

\* stage_file_with_content(path, content): the entry keeps the editable flag of
\* the staged file, editable if there is none
stage_file_with_content(m, h, path, content, now) ==
    IF staged_index(m).res # "Ok" THEN [m |-> m, res |-> staged_index(m).res]
    ELSE LET e == get_file(m.heap[m.staged.snapshot], path)
             editable == IF e = None THEN TRUE ELSE is_editable(e)
         IN stage_file(m, h, path, [bytes |-> content, mtime |-> now, editable |-> editable])

NoResponse == [lines_replaced |-> 0, lines_added |-> 0, total_lines |-> 0, original_lines |-> 0]

\* the closure handle_replace_lines runs inside with_snapshot
replace_lines_body(m, h, req) ==
    LET c == get_file_content_staged(m, req.path)
        a == apply_line_operations(c.content, req.replacements)
        total_lines == Len(lines(a.content))
        s1 == stage_file_with_content(m, h, req.path, a.content, req.now)
        s2 == update_line_stats(s1.m, h, req.path, total_lines)
    IN IF c.res # "Ok" THEN [m |-> m, res |-> c.res, val |-> NoResponse]
       ELSE IF s1.res # "Ok" THEN [m |-> s1.m, res |-> s1.res, val |-> NoResponse]
       ELSE IF s2.res # "Ok" THEN [m |-> s2.m, res |-> s2.res, val |-> NoResponse]
       ELSE [m |-> s2.m, res |-> "Ok",
             val |-> [lines_replaced |-> a.removed,
                      lines_added |-> a.added - a.removed,
                      total_lines |-> total_lines,
                      original_lines |-> Len(lines(c.content))]]

handle_replace_lines(m, h, req) ==
    with_snapshot(m.staged, h, replace_lines_body(m, WithCaptured(h, m.staged), req))

\* a client's ReplaceLines request, from call to return
HandleReplaceLines(c, req) ==
    /\ orch[c].pc = "idle"
    /\ LET r == handle_replace_lines(Cur, Holders, req)
       IN ClientCommit(r.m, [orch EXCEPT ![c].pc = "done", ![c].req = req,
                                         ![c].resp = [res |-> r.res, val |-> r.val]])

\* clients replacing lines in the file a writer stages and promotes
NextReplaceLines ==
    \/ BeginStaging
    \/ PromoteStaged
    \/ \E e \in Entries : StageFile(<<1>>, e)
    \/ \E c \in Clients, req \in ReplaceLinesRequests : HandleReplaceLines(c, req)

SpecReplaceLines == Init /\ [][NextReplaceLines]_vars

(***************************************************************************)
(* compute_diff (tools/diff.rs). The similar crate is an outside crate: its *)
(* change list is any shortest line edit script from original to modified,  *)
(* over the lines with their terminators                                    *)
(***************************************************************************)
\* every list of changes that turns the tokens a into the tokens b
RECURSIVE Scripts(_, _)
Scripts(a, b) ==
    IF a = <<>> /\ b = <<>> THEN {<<>>}
    ELSE (IF a # <<>>
          THEN {<<[tag |-> "Delete", value |-> Head(a)]>> \o s : s \in Scripts(Tail(a), b)}
          ELSE {})
         \cup (IF b # <<>>
               THEN {<<[tag |-> "Insert", value |-> Head(b)]>> \o s : s \in Scripts(a, Tail(b))}
               ELSE {})
         \cup (IF a # <<>> /\ b # <<>> /\ Head(a) = Head(b)
               THEN {<<[tag |-> "Equal", value |-> Head(a)]>> \o s :
                        s \in Scripts(Tail(a), Tail(b))}
               ELSE {})

\* the changes with the given tag
CountTag(s, tag) == Cardinality({j \in 1..Len(s) : s[j].tag = tag})

\* TextDiff::from_lines(original, modified).iter_all_changes(): the shortest scripts
iter_all_changes(original, modified) ==
    LET a == SplitLines(original, <<>>)
        b == SplitLines(modified, <<>>)
    IN {s \in Scripts(a, b) : CountTag(s, "Equal") = LcsLen(a, b)}

\* line.strip_suffix('\n').unwrap_or(line)
strip_suffix(line) ==
    IF line # <<>> /\ line[Len(line)] = NL THEN SubSeq(line, 1, Len(line) - 1) ELSE line

\* DiffRegion built from the current region tuple
DiffRegion(cur) ==
    [original_start |-> cur.orig_start, lines_removed |-> Len(cur.removed),
     modified_start |-> cur.mod_start, lines_added |-> Len(cur.added),
     removed_lines |-> cur.removed, added_lines |-> cur.added]

\* regions.push(..) of a current region that is not empty
CloseRegion(regions, cur) ==
    IF cur # None /\ (cur.removed # <<>> \/ cur.added # <<>>)
    THEN Append(regions, DiffRegion(cur))
    ELSE regions

\* current_region.get_or_insert((original_line, modified_line, vec![], vec![]))
get_or_insert(st) ==
    IF st.cur # None THEN st.cur
    ELSE [orig_start |-> st.original_line, mod_start |-> st.modified_line,
          removed |-> <<>>, added |-> <<>>]

\* original_line left where it was after a Delete
DeleteAdvance_Stuck(original_line) == original_line

\* original_line += 1 after a Delete
DeleteAdvance(original_line) == original_line + 1

\* the body of the loop over the changes
DiffStep(st, change) ==
    CASE change.tag = "Equal" ->
           [regions |-> CloseRegion(st.regions, st.cur), cur |-> None,
            original_line |-> st.original_line + 1,
            modified_line |-> st.modified_line + 1]
      [] change.tag = "Delete" ->
           LET r0 == get_or_insert(st)
               r1 == IF r0.removed = <<>> /\ r0.added # <<>>
                     THEN [r0 EXCEPT !.orig_start = st.original_line] ELSE r0
           IN [st EXCEPT !.cur = [r1 EXCEPT !.removed = Append(@, strip_suffix(change.value))],
                         !.original_line = DeleteAdvance(st.original_line)]
      [] change.tag = "Insert" ->
           LET r0 == get_or_insert(st)
               r1 == IF r0.added = <<>> /\ r0.removed = <<>>
                     THEN [r0 EXCEPT !.mod_start = st.modified_line] ELSE r0
           IN [st EXCEPT !.cur = [r1 EXCEPT !.added = Append(@, strip_suffix(change.value))],
                         !.modified_line = st.modified_line + 1]

RECURSIVE DiffLoop(_, _)
DiffLoop(st, changes) ==
    IF changes = <<>> THEN st ELSE DiffLoop(DiffStep(st, Head(changes)), Tail(changes))

\* regions.iter().map(f).sum()
RECURSIVE SumOver(_, _)
SumOver(regions, field) ==
    IF regions = <<>> THEN 0 ELSE regions[1][field] + SumOver(Tail(regions), field)

\* compute_diff(path, original, modified), given the change list of the diff
compute_diff(changes) ==
    LET st == DiffLoop([regions |-> <<>>, cur |-> None,
                        original_line |-> 1, modified_line |-> 1], changes)
        regions == CloseRegion(st.regions, st.cur)
    IN [stats |-> [lines_added |-> SumOver(regions, "lines_added"),
                   lines_removed |-> SumOver(regions, "lines_removed"),
                   regions_changed |-> Len(regions)],
        regions |-> regions]

\* a reader of the diff: for each region, last first, delete lines_removed lines
\* of the original at original_start and insert added_lines there
RECURSIVE ApplyRegions(_, _)
ApplyRegions(ls, regions) ==
    IF regions = <<>> THEN ls
    ELSE LET r == regions[Len(regions)]
         IN ApplyRegions(InsertAt(RemoveAt(ls, r.original_start - 1, r.lines_removed),
                                  r.original_start - 1, r.added_lines),
                         SubSeq(regions, 1, Len(regions) - 1))

\* a caller about to diff two texts
InitDiff ==
    /\ IndexInit /\ MgrIdle /\ OrchIdle
    /\ \E a \in Contents, b \in Contents :
          tool = [fn |-> "input", in |-> [original |-> a, modified |-> b], out |-> None]

ComputeDiff ==
    /\ tool.fn = "input"
    /\ \E changes \in iter_all_changes(tool.in.original, tool.in.modified) :
          tool' = [fn |-> "compute_diff", in |-> tool.in,
                   out |-> [diff |-> compute_diff(changes)]]
    /\ UNCHANGED <<ix, ixret, heap, active, staged, cache, handle, seen, call, ncalls, orch>>

ApplyDiff ==
    /\ tool.fn = "compute_diff"
    /\ tool' = [fn |-> "apply_diff", in |-> tool.in,
                out |-> [diff |-> tool.out.diff,
                         lines |-> ApplyRegions(lines(tool.in.original),
                                                tool.out.diff.regions)]]
    /\ UNCHANGED <<ix, ixret, heap, active, staged, cache, handle, seen, call, ncalls, orch>>

NextDiff ==
    \/ ComputeDiff
    \/ ApplyDiff

SpecDiff == InitDiff /\ [][NextDiff]_vars

(***************************************************************************)
(* Orchestrator::handle_find with the caller's abort flag, and a controller *)
(* that may set the flag at any point of the scan. A file is the list of    *)
(* its matched regions, a region the number of matches the engine finds in  *)
(* it                                                                       *)
(***************************************************************************)
\* most files in the searched index, and most regions in a file
MaxFindFiles == 2

\* most matches in a region
MaxRegionMatches == 2

\* the searched files, in iter_sorted order
FindInputs == SeqsOver(SeqsOver(1..MaxRegionMatches, MaxFindFiles), MaxFindFiles)

\* a caller about to run a find, holding a fresh AbortFlag
InitFind ==
    /\ IndexInit /\ MgrIdle /\ OrchIdle
    /\ \E fs \in FindInputs :
          tool = [fn |-> "input", in |-> [files |-> fs], out |-> [abort |-> FALSE]]

FindFrame == UNCHANGED <<ix, ixret, heap, active, staged, cache, handle, seen, call, ncalls, orch>>

\* abort.reset(); let mut results = Vec::new()
FindBegin ==
    /\ tool.fn = "input"
    /\ tool' = [fn |-> "handle_find", in |-> tool.in,
                out |-> [pc |-> "files", f |-> 1, r |-> 1, k |-> 1,
                         abort |-> FALSE, local_abort |-> FALSE,
                         results |-> <<>>, res |-> "none"]]
    /\ FindFrame

\* the head of the loop over index.iter_sorted(): the caller's flag is polled
\* here; for_each_match then scans the file under a flag of its own
FindFile ==
    /\ tool.fn = "handle_find" /\ tool.out.pc = "files"
    /\ tool' = [tool EXCEPT !.out =
                  IF tool.out.f > Len(tool.in.files) \/ tool.out.abort
                  THEN [@ EXCEPT !.pc = "return"]
                  ELSE [@ EXCEPT !.pc = "regions", !.r = 1, !.local_abort = FALSE]]
    /\ FindFrame

\* RegionSink::matched: the flag handed to search_regions is polled between regions
FindRegion ==
    /\ tool.fn = "handle_find" /\ tool.out.pc = "regions"
    /\ tool' = [tool EXCEPT !.out =
                  IF tool.out.r > Len(tool.in.files[tool.out.f]) \/ tool.out.local_abort
                  THEN [@ EXCEPT !.pc = "files", !.f = @ + 1]
                  ELSE [@ EXCEPT !.pc = "matches", !.k = 1]]
    /\ FindFrame

\* find_matches' callback: on_match pushes the hunk and returns Ok(true)
FindMatch ==
    /\ tool.fn = "handle_find" /\ tool.out.pc = "matches"
    /\ tool' = [tool EXCEPT !.out =
                  IF tool.out.k > tool.in.files[tool.out.f][tool.out.r]
                  THEN [@ EXCEPT !.pc = "regions", !.r = @ + 1]
                  ELSE [@ EXCEPT !.k = @ + 1,
                                 !.results = Append(@, [file |-> tool.out.f,
                                                        region |-> tool.out.r,
                                                        match |-> tool.out.k,
                                                        flag_set |-> tool.out.abort])]]
    /\ FindFrame

\* Ok(FindResponse { results })
FindReturn ==
    /\ tool.fn = "handle_find" /\ tool.out.pc = "return"
    /\ tool' = [tool EXCEPT !.out.pc = "done", !.out.res = "Ok"]
    /\ FindFrame

\* AbortFlag::abort() from a controller holding a clone of the flag, before
\* the caller enters handle_find or while the scan runs
Abort ==
    /\ \/ tool.fn = "input"
       \/ tool.fn = "handle_find" /\ tool.out.pc \in {"files", "regions", "matches"}
    /\ ~tool.out.abort
    /\ tool' = [tool EXCEPT !.out.abort = TRUE]
    /\ FindFrame

NextFind ==
    \/ FindBegin
    \/ FindFile
    \/ FindRegion
    \/ FindMatch
    \/ FindReturn
    \/ Abort

SpecFind == InitFind /\ [][NextFind]_vars

(***************************************************************************)
(* Orchestrator::handle_copy_files and handle_move_files: batches run       *)
(* inside with_snapshot                                                     *)
(***************************************************************************)
\* most operations in one batch request
MaxBatchOps == 2

\* FileOperation values of a batch: "a" -> "ab", "a" -> "b", "ab" -> "b"
FileOperations == {op \in [src : MgrPaths, dst : Paths] : LexLess(op.src, op.dst)}

\* BatchCopyRequest values, with the time the handler reads
BatchCopyRequests ==
    [kind : {"copy"}, operations : SeqsOver(FileOperations, MaxBatchOps) \ {<<>>},
     now : Timestamps]

\* BatchMoveRequest values, with the time the handler reads
BatchMoveRequests ==
    [kind : {"move"}, operations : SeqsOver(FileOperations, MaxBatchOps) \ {<<>>},
     now : Timestamps]

\* the handles h with an Arc<Index> a function holds in a local
WithLocal(h, addrs) ==
    [x \in DOMAIN h \cup {-1} |-> IF x = -1 THEN addrs ELSE h[x]]

\* copy_single_file(src, dst): the staged handle read at the start is held
\* until the function returns
copy_single_file(m, h, src, dst, now) ==
    IF staged_index(m).res # "Ok" THEN [m |-> m, res |-> staged_index(m).res]
    ELSE LET hl == WithLocal(h, staged_index(m).val)
             src_entry == get_file(m.heap[m.staged.snapshot], src)
         IN IF src_entry = None THEN [m |-> m, res |-> "FileNotFound"]
            ELSE LET src_line_count == NewlinesPlusOne(src_entry.bytes)
                     s1 == stage_file_with_content(m, hl, dst, src_entry.bytes, now)
                     s2 == update_line_stats(s1.m, hl, dst, src_line_count)
                 IN IF s1.res # "Ok" THEN [m |-> Collect(s1.m, h), res |-> s1.res]
                    ELSE [m |-> Collect(s2.m, h), res |-> s2.res]

\* the loop over the operations that stops after the first one
CopyLoop_FirstOnly(m, h, ops, now) ==
    IF ops = <<>> THEN [m |-> m, res |-> "Ok"]
    ELSE copy_single_file(m, h, Head(ops).src, Head(ops).dst, now)

\* for operation in &req.operations { self.copy_single_file(src, dst)?; }
RECURSIVE CopyLoop(_, _, _, _)
CopyLoop(m, h, ops, now) ==
    IF ops = <<>> THEN [m |-> m, res |-> "Ok"]
    ELSE LET r == copy_single_file(m, h, Head(ops).src, Head(ops).dst, now)
         IN IF r.res # "Ok" THEN r ELSE CopyLoop(r.m, h, Tail(ops), now)

handle_copy_files(m, h, req) ==
    LET r == CopyLoop(m, WithCaptured(h, m.staged), req.operations, req.now)
    IN with_snapshot(m.staged, h,
                     [m |-> r.m, res |-> r.res,
                      val |-> IF r.res = "Ok" THEN Len(req.operations) ELSE 0])

\* move_staged_file(src, dst, new_mtime): relocate the entry of src to dst with
\* the new mtime, mark both keys modified; FileNotFound if src is missing
move_staged_file(m, h, src, dst, new_mtime) ==
    IF m.staged = None THEN [m |-> m, res |-> "StagingNotActive"]
    ELSE IF get_file(m.heap[m.staged.snapshot], src) = None
         THEN [m |-> m, res |-> "FileNotFound"]
    ELSE LET m1 == make_mut(m, h)
             a == m1.staged.snapshot
             e == [get_file(m1.heap[a], src) EXCEPT !.mtime = new_mtime]
             without == remove_file(m1.heap[a], src).index
             moved == [files |-> [without.files EXCEPT ![dst] = e],
                       prefixes |-> without.prefixes \cup {dst}]
         IN [m |-> [m1 EXCEPT !.staged.modified = @ \cup {src, dst},
                              !.cache = {c \in @ : c.path \notin {src, dst}},
                              !.heap[a] = moved],
             res |-> "Ok"]

\* for operation in &req.operations { move_staged_file(src, dst, now)?; }
RECURSIVE MoveLoop(_, _, _, _)
MoveLoop(m, h, ops, now) ==
    IF ops = <<>> THEN [m |-> m, res |-> "Ok"]
    ELSE LET r == move_staged_file(m, h, Head(ops).src, Head(ops).dst, now)
         IN IF r.res # "Ok" THEN r ELSE MoveLoop(r.m, h, Tail(ops), now)

handle_move_files(m, h, req) ==
    LET r == MoveLoop(m, WithCaptured(h, m.staged), req.operations, req.now)
    IN with_snapshot(m.staged, h,
                     [m |-> r.m, res |-> r.res,
                      val |-> IF r.res = "Ok" THEN Len(req.operations) ELSE 0])

\* a client's batch copy request, from call to return
HandleCopyFiles(c, req) ==
    /\ orch[c].pc = "idle"
    /\ LET r == handle_copy_files(Cur, Holders, req)
       IN ClientCommit(r.m, [orch EXCEPT ![c].pc = "done", ![c].req = req,
                                         ![c].resp = [res |-> r.res, val |-> r.val]])

\* a client's batch move request, from call to return
HandleMoveFiles(c, req) ==
    /\ orch[c].pc = "idle"
    /\ LET r == handle_move_files(Cur, Holders, req)
       IN ClientCommit(r.m, [orch EXCEPT ![c].pc = "done", ![c].req = req,
                                         ![c].resp = [res |-> r.res, val |-> r.val]])

\* clients sending batches and line edits over the files a writer stages
NextBatch ==
    \/ BeginStaging
    \/ \E k \in MgrPaths, e \in {EntryB, EntryRO} : StageFile(k, e)
    \/ \E c \in Clients, req \in BatchCopyRequests : HandleCopyFiles(c, req)
    \/ \E c \in Clients, req \in BatchMoveRequests : HandleMoveFiles(c, req)
    \/ \E c \in Clients, req \in ReplaceLinesRequests : HandleReplaceLines(c, req)

SpecBatch == Init /\ [][NextBatch]_vars

(***************************************************************************)
(* Orchestrator::handle_delete and get_modified_files_summary. The manager  *)
(* in src/ keeps no moves map: get_staged_moves yields no move              *)
(***************************************************************************)
\* DeleteRequest values
DeleteRequests == [kind : {"delete"}, path : {<<1>>}]

\* handle_delete(req): the staged handle read at the start is held until the
\* function returns
handle_delete(m, h, req) ==
    IF staged_index(m).res # "Ok"
    THEN [m |-> m, res |-> staged_index(m).res, val |-> FALSE]
    ELSE LET existed == get_file(m.heap[m.staged.snapshot], req.path) # None
             r == remove_staged_file(m, WithLocal(h, staged_index(m).val), req.path)
         IN IF ~existed THEN [m |-> m, res |-> "Ok", val |-> FALSE]
            ELSE IF r.res # "Ok" THEN [m |-> Collect(r.m, h), res |-> r.res, val |-> FALSE]
            ELSE [m |-> Collect(r.m, h), res |-> "Ok", val |-> TRUE]

\* stats.lines_added.max(0) as usize
MaxZero(n) == IF n < 0 THEN 0 ELSE n

\* stats.lines_removed.unsigned_abs()
unsigned_abs(n) == IF n < 0 THEN 0 - n ELSE n

\* the loop over change_stats: "Process other changes"
RECURSIVE SummariesOfStats(_, _, _)
SummariesOfStats(m, paths, deletion_set) ==
    IF paths = <<>> THEN <<>>
    ELSE LET path == Head(paths)
             stats == m.staged.change_stats[path]
             rest == SummariesOfStats(m, Tail(paths), deletion_set)
         IN IF path \in deletion_set THEN rest
            ELSE <<[path |-> path,
                    lines_added |-> MaxZero(stats.lines_added),
                    lines_removed |-> unsigned_abs(stats.lines_removed),
                    status |-> IF get_file(m.heap[m.active], path) = None
                               THEN "Created" ELSE "Modified"]>> \o rest

\* the loop over deletions: "Process deletions"; get_line_index caches the
\* LineIndex of the active entry
RECURSIVE SummariesOfDeletions(_, _)
SummariesOfDeletions(m, paths) ==
    IF paths = <<>> THEN [m |-> m, val |-> <<>>]
    ELSE LET path == Head(paths)
             ae == get_file(m.heap[m.active], path)
             m1 == get_line_index(m, path, m.heap[m.active])
             rest == SummariesOfDeletions(m1, Tail(paths))
         IN [m |-> rest.m,
             val |-> <<[path |-> path, lines_added |-> 0,
                        lines_removed |-> IF ae = None THEN 0
                                          ELSE line_count(LineIndexBuild(ae.bytes)),
                        status |-> "Deleted"]>> \o rest.val]

\* get_modified_files_summary()
get_modified_files_summary(m) ==
    IF staged_index(m).res # "Ok" THEN [m |-> m, res |-> staged_index(m).res, val |-> <<>>]
    ELSE LET deletions == get_staged_deletions(m).val
             by_stats == SummariesOfStats(m, OrdSetIter(Keys(m.staged.change_stats)),
                                          deletions)
             by_del == SummariesOfDeletions(m, OrdSetIter(deletions))
         IN [m |-> by_del.m, res |-> "Ok", val |-> by_stats \o by_del.val]

\* get_file_diff(path).stats: compute_diff of the active and the staged content,
\* a missing file taken as empty
get_file_diff(m, path) ==
    LET ae == get_file(m.heap[m.active], path)
        se == get_file(m.heap[m.staged.snapshot], path)
    IN DiffStats(IF ae = None THEN <<>> ELSE ae.bytes, IF se = None THEN <<>> ELSE se.bytes)

\* a client's Delete request, from call to return
HandleDelete(c, req) ==
    /\ orch[c].pc = "idle"
    /\ LET r == handle_delete(Cur, Holders, req)
       IN ClientCommit(r.m, [orch EXCEPT ![c].pc = "done", ![c].req = req,
                                         ![c].resp = [res |-> r.res, val |-> r.val]])

\* the host's ModifiedFilesSummary request, from call to return
GetModifiedFilesSummary ==
    /\ tool.fn = "none"
    /\ LET r == get_modified_files_summary(Cur)
       IN /\ tool' = [fn |-> "get_modified_files_summary", in |-> None,
                      out |-> [res |-> r.res, val |-> r.val]]
          /\ cache' = r.m.cache
    /\ UNCHANGED <<heap, active, staged, handle, seen, call, ncalls, ix, ixret, orch>>

\* the line edits sent here: line 1 replaced
SummaryReplaceLines ==
    {r \in ReplaceLinesRequests :
        r.replacements[1].start = 1 /\ r.replacements[1].end = 1}

\* clients creating and deleting a file and editing its lines, and asking for
\* the summary, in the sessions a writer begins and promotes
NextSummary ==
    \/ BeginStaging
    \/ PromoteStaged
    \/ \E c \in Clients, req \in CreateRequests : HandleCreateBegin(c, req)
    \/ \E c \in Clients : HandleCreateStage(c)
    \/ \E c \in Clients : HandleCreateReadActive(c)
    \/ \E c \in Clients : HandleCreateStats(c)
    \/ \E c \in Clients, req \in DeleteRequests : HandleDelete(c, req)
    \/ \E c \in Clients, req \in SummaryReplaceLines : HandleReplaceLines(c, req)
    \/ GetModifiedFilesSummary

SpecSummary == Init /\ [][NextSummary]_vars

(***************************************************************************)
(* Path interning (fs/path.rs): PathKey::try_from normalizes the string    *)
(* and interns it in the process-wide INTERN_POOL, an RwLock<HashSet<      *)
(* Arc<str>>>.  Strings are sequences of character codes; an Arc<str> is   *)
(* the number of its allocation in the table arcs.                         *)
(***************************************************************************)
NumInternThreads == 3

InternThreads == 1..NumInternThreads

\* the strings handed to PathKey::try_from: "a", "a/", "./a", "b/../a", "b",
\* "/a", "" and "a\n"
RawPaths ==
    {<<97>>, <<97, 47>>, <<46, 47, 97>>, <<98, 47, 46, 46, 47, 97>>, <<98>>,
     <<47, 97>>, <<>>, <<97, 10>>}

is_control(c) == c < 32 \/ c = 127

\* Path::components(): the pieces between slashes, empty pieces and "." dropped
RECURSIVE components(_, _)
components(s, cur) ==
    LET piece == IF cur = <<>> \/ cur = <<46>> THEN <<>> ELSE <<cur>>
    IN IF s = <<>> THEN piece
       ELSE IF Head(s) = 47 THEN piece \o components(Tail(s), <<>>)
       ELSE components(Tail(s), Append(cur, Head(s)))

\* NormalizePath::normalize over the components: ".." pops the last one kept
RECURSIVE normalize(_, _)
normalize(comps, ret) ==
    IF comps = <<>> THEN ret
    ELSE IF Head(comps) = <<46, 46>>
         THEN normalize(Tail(comps),
                        IF ret = <<>> THEN ret ELSE SubSeq(ret, 1, Len(ret) - 1))
    ELSE normalize(Tail(comps), Append(ret, Head(comps)))

\* to_slash_lossy: the components joined by "/", after the root if there is one
RECURSIVE to_slash(_)
to_slash(comps) ==
    IF comps = <<>> THEN <<>>
    ELSE IF Len(comps) = 1 THEN Head(comps)
    ELSE Head(comps) \o <<47>> \o to_slash(Tail(comps))

RECURSIVE strip_trailing_slashes(_)
strip_trailing_slashes(out) ==
    IF Len(out) > 1 /\ out[Len(out)] = 47
    THEN strip_trailing_slashes(SubSeq(out, 1, Len(out) - 1))
    ELSE out

normalize_for_index(s) ==
    IF s = <<>> THEN [res |-> "InvalidPath", val |-> <<>>]
    ELSE IF \E i \in 1..Len(s) : is_control(s[i]) THEN [res |-> "InvalidPath", val |-> <<>>]
    ELSE LET root == IF s[1] = 47 THEN <<47>> ELSE <<>>
             out == root \o to_slash(normalize(components(s, <<>>), <<>>))
         IN [res |-> "Ok", val |-> strip_trailing_slashes(out)]

\* HashSet::get: the stored Arc whose string equals s
pool_get(arcs, pool, s) ==
    IF \E a \in pool : arcs[a] = s THEN CHOOSE a \in pool : arcs[a] = s ELSE 0

\* a second lookup that never finds the string
double_check_Miss(arcs, pool, s) == 0

\* the lookup repeated under the writer lock
double_check(arcs, pool, s) == pool_get(arcs, pool, s)

\* HashSet::insert: an element equal to a stored one is not inserted
pool_insert(arcs, pool, a) ==
    IF \E b \in pool : arcs[b] = arcs[a] THEN pool ELSE pool \cup {a}

\* derived PartialEq of PathKey: Arc<str> compares the strings
PathKeyEq(arcs, a, b) == arcs[a] = arcs[b]

\* derived Hash of PathKey: Arc<str> hashes the string
RECURSIVE str_hash(_)
str_hash(s) == IF s = <<>> THEN 7 ELSE (31 * str_hash(Tail(s)) + Head(s)) % 256

PathKeyHash(arcs, a) == str_hash(arcs[a])

InternIdle == [pc |-> "idle", raw |-> <<>>, norm |-> <<>>, ret |-> 0, via |-> "none"]

\* an empty pool, no lock held, no call started
InitIntern ==
    /\ IndexInit /\ MgrIdle /\ OrchIdle
    /\ tool = [fn |-> "intern", in |-> None,
               out |-> [arcs |-> <<>>, pool |-> {}, readers |-> {}, writer |-> 0,
                        thr |-> [t \in InternThreads |-> InternIdle]]]

InternFrame == UNCHANGED <<ix, ixret, heap, active, staged, cache, handle, seen, call, ncalls, orch>>

\* PathKey::try_from(value): normalize_for_index(value)?
TryFrom(t, value) ==
    /\ tool.fn = "intern" /\ tool.out.thr[t].pc = "idle"
    /\ LET n == normalize_for_index(value)
       IN tool' = [tool EXCEPT !.out.thr[t] =
                     IF n.res = "Ok"
                     THEN [@ EXCEPT !.pc = "read", !.raw = value, !.norm = n.val]
                     ELSE [@ EXCEPT !.pc = "done", !.raw = value, !.via = n.res]]
    /\ InternFrame

\* INTERN_POOL.read()
InternReadLock(t) ==
    /\ tool.fn = "intern" /\ tool.out.thr[t].pc = "read"
    /\ tool.out.writer = 0
    /\ tool' = [tool EXCEPT !.out.readers = @ \cup {t}, !.out.thr[t].pc = "fast"]
    /\ InternFrame

\* the fast path: get under the reader lock, which is dropped with the statement
InternFast(t) ==
    /\ tool.fn = "intern" /\ tool.out.thr[t].pc = "fast"
    /\ LET hit == pool_get(tool.out.arcs, tool.out.pool, tool.out.thr[t].norm)
       IN tool' = [tool EXCEPT !.out.readers = @ \ {t},
                               !.out.thr[t] =
                                  IF hit # 0
                                  THEN [@ EXCEPT !.pc = "done", !.ret = hit, !.via = "fast"]
                                  ELSE [@ EXCEPT !.pc = "write"]]
    /\ InternFrame

\* INTERN_POOL.write()
InternWriteLock(t) ==
    /\ tool.fn = "intern" /\ tool.out.thr[t].pc = "write"
    /\ tool.out.writer = 0 /\ tool.out.readers = {}
    /\ tool' = [tool EXCEPT !.out.writer = t, !.out.thr[t].pc = "check"]
    /\ InternFrame

\* the double-check under the writer lock
InternDoubleCheck(t) ==
    /\ tool.fn = "intern" /\ tool.out.thr[t].pc = "check"
    /\ LET hit == double_check(tool.out.arcs, tool.out.pool, tool.out.thr[t].norm)
       IN tool' = [tool EXCEPT !.out.writer = IF hit # 0 THEN 0 ELSE @,
                               !.out.thr[t] =
                                  IF hit # 0
                                  THEN [@ EXCEPT !.pc = "done", !.ret = hit, !.via = "double_check"]
                                  ELSE [@ EXCEPT !.pc = "insert"]]
    /\ InternFrame

\* Arc::<str>::from(normalized); pool.insert(Arc::clone(&arc)); arc
InternInsert(t) ==
    /\ tool.fn = "intern" /\ tool.out.thr[t].pc = "insert"
    /\ LET arcs == Append(tool.out.arcs, tool.out.thr[t].norm)
           arc == Len(arcs)
       IN tool' = [tool EXCEPT !.out.arcs = arcs,
                               !.out.pool = pool_insert(arcs, @, arc),
                               !.out.writer = 0,
                               !.out.thr[t] = [@ EXCEPT !.pc = "done", !.ret = arc,
                                                        !.via = "insert"]]
    /\ InternFrame

NextIntern ==
    \/ \E t \in InternThreads, value \in RawPaths : TryFrom(t, value)
    \/ \E t \in InternThreads : InternReadLock(t)
    \/ \E t \in InternThreads : InternFast(t)
    \/ \E t \in InternThreads : InternWriteLock(t)
    \/ \E t \in InternThreads : InternDoubleCheck(t)
    \/ \E t \in InternThreads : InternInsert(t)

SpecIntern == InitIntern /\ [][NextIntern]_vars

(***************************************************************************)
(* The line-index cache under file versions that share an mtime            *)
(* (fs/manager.rs, get_line_index and its invalidation)                    *)
(***************************************************************************)
\* a second version of a file, stamped with the mtime of EntryA
EntryA2 == [bytes |-> <<1, 10, 1>>, mtime |-> 1, editable |-> TRUE]

CacheEntries == {EntryA, EntryA2}

\* what get_line_index(path, index) returns: the cached index of (path, mtime)
\* if there is one, else the index built from the entry's bytes
get_line_index_value(m, path, index) ==
    LET entry == get_file(index, path)
    IN IF entry = None THEN None
       ELSE IF \E c \in m.cache : c.path = path /\ c.mtime = entry.mtime
            THEN Some((CHOOSE c \in m.cache : c.path = path /\ c.mtime = entry.mtime).line_index)
       ELSE Some(LineIndexBuild(entry.bytes))

\* a reader asks for the line index of a path in the index it holds; the call
\* and what it returned are kept in tool
GetLineIndexCall(r, path) ==
    /\ handle[r] # {}
    /\ cache' = get_line_index(Cur, path, Held(r)).cache
    /\ tool' = [fn |-> "get_line_index", in |-> [path |-> path, index |-> Held(r)],
                out |-> get_line_index_value(Cur, path, Held(r))]
    /\ UNCHANGED <<heap, active, staged, handle, seen, call, ncalls, ix, ixret, orch>>

NextCache ==
    \/ BeginStaging
    \/ \E k \in MgrPaths, e \in CacheEntries : StageFile(k, e)
    \/ \E k \in MgrPaths : RemoveStagedFile(k)
    \/ PromoteStaged
    \/ RevertStaged
    \/ \E k \in MgrPaths, e \in CacheEntries : LoadFiles(<<<<k, e>>>>)
    \/ \E r \in Readers : ActiveIndex(r)
    \/ \E r \in Readers : StagedIndex(r)
    \/ \E r \in Readers : DropHandle(r)
    \/ \E r \in Readers, k \in MgrPaths : GetLineIndexCall(r, k)

SpecCache == Init /\ [][NextCache]_vars

(***************************************************************************)
(* Orchestrator::handle_delete_lines and handle_insert_lines                *)
(* (conduit-wasm/src/orchestrator.rs), with the Create and ReplaceLines     *)
(* requests above                                                           *)
(***************************************************************************)
\* most line numbers in a DeleteLines request
MaxLineNumbers == 2

\* largest line number in a DeleteLines request
MaxDeleteLine == 2

\* DeleteLinesRequest values, with the time the handler reads
DeleteLinesRequests ==
    [path : {<<1>>}, line_numbers : SeqsOver(0..MaxDeleteLine, MaxLineNumbers), now : Timestamps]

\* InsertLinesRequest values: one insertion, before or after a line
InsertLinesRequests ==
    [path : {<<1>>},
     insertions : {<<i>> : i \in [position : {"Before", "After"}, line_number : {1},
                                  content : {<<1>>, <<1, NL, 1>>}]},
     now : Timestamps]

\* CreateRequest values whose content ends with a newline
NewlineCreateRequests ==
    [path : {<<1>>}, content : {<<1, NL>>}, allow_overwrite : BOOLEAN, now : Timestamps]

\* sorted_lines.sort_unstable(); sorted_lines.dedup()
sort_dedup(line_numbers) ==
    OrdSeqOfOffsets({line_numbers[j] : j \in 1..Len(line_numbers)})

\* the loop that turns runs of consecutive numbers into DeleteRange operations
RECURSIVE DeleteRanges(_, _, _)
DeleteRanges(rest, start, end) ==
    IF rest = <<>>
    THEN <<[kind |-> "DeleteRange", start |-> start, end |-> end, content |-> <<>>]>>
    ELSE IF Head(rest) = end + 1 THEN DeleteRanges(Tail(rest), start, Head(rest))
    ELSE <<[kind |-> "DeleteRange", start |-> start, end |-> end, content |-> <<>>]>>
         \o DeleteRanges(Tail(rest), Head(rest), Head(rest))

\* update_line_stats(path, .., total_lines)?; Ok(response)
edit_stats(m, h, path, total_lines, val) ==
    LET s2 == update_line_stats(m, h, path, total_lines)
    IN [m |-> s2.m, res |-> s2.res, val |-> IF s2.res = "Ok" THEN val ELSE NoResponse]

\* stage_file_with_content(path, modified_content)?, then the statistics
edit_stage(m, h, req, modified_content, val) ==
    LET s1 == stage_file_with_content(m, h, req.path, modified_content, req.now)
    IN IF s1.res # "Ok" THEN [m |-> s1.m, res |-> s1.res, val |-> NoResponse]
       ELSE edit_stats(s1.m, h, req.path, val.total_lines, val)

\* apply_line_operations on the staged content, then staging and statistics
delete_lines_apply(m, h, req, content, operations) ==
    LET a == apply_line_operations(content, operations)
    IN edit_stage(m, h, req, a.content,
                  [lines_replaced |-> a.removed,
                   lines_added |-> 0 - a.removed,
                   total_lines |-> Len(lines(a.content)),
                   original_lines |-> Len(lines(content))])

\* the closure handle_delete_lines runs inside with_snapshot
delete_lines_body(m, h, req) ==
    LET c == get_file_content_staged(m, req.path)
        sorted_lines == sort_dedup(req.line_numbers)
    IN IF c.res # "Ok" THEN [m |-> m, res |-> c.res, val |-> NoResponse]
       ELSE delete_lines_apply(m, h, req, c.content,
                IF sorted_lines = <<>> THEN <<>>
                ELSE DeleteRanges(Tail(sorted_lines), Head(sorted_lines),
                                  Head(sorted_lines)))

handle_delete_lines(m, h, req) ==
    with_snapshot(m.staged, h, delete_lines_body(m, WithCaptured(h, m.staged), req))

\* insertions mapped to InsertBefore / InsertAfter operations
RECURSIVE InsertOperations(_)
InsertOperations(insertions) ==
    IF insertions = <<>> THEN <<>>
    ELSE <<[kind |-> IF Head(insertions).position = "Before"
                     THEN "InsertBefore" ELSE "InsertAfter",
            start |-> Head(insertions).line_number, end |-> 0,
            content |-> Head(insertions).content]>>
         \o InsertOperations(Tail(insertions))

\* apply_line_operations on the staged content, then staging and statistics
insert_lines_apply(m, h, req, content, operations) ==
    LET a == apply_line_operations(content, operations)
    IN edit_stage(m, h, req, a.content,
                  [lines_replaced |-> 0,
                   lines_added |-> a.added,
                   total_lines |-> Len(lines(a.content)),
                   original_lines |-> Len(lines(content))])

\* the closure handle_insert_lines runs inside with_snapshot
insert_lines_body(m, h, req) ==
    LET c == get_file_content_staged(m, req.path)
    IN IF c.res # "Ok" THEN [m |-> m, res |-> c.res, val |-> NoResponse]
       ELSE insert_lines_apply(m, h, req, c.content, InsertOperations(req.insertions))

handle_insert_lines(m, h, req) ==
    with_snapshot(m.staged, h, insert_lines_body(m, WithCaptured(h, m.staged), req))

\* a client's DeleteLines request, from call to return
HandleDeleteLines(c, req) ==
    /\ orch[c].pc = "idle"
    /\ LET r == handle_delete_lines(Cur, Holders, req)
       IN ClientCommit(r.m, [orch EXCEPT ![c].pc = "done", ![c].req = req,
                                         ![c].resp = [res |-> r.res, val |-> r.val]])

\* a client's InsertLines request, from call to return
HandleInsertLines(c, req) ==
    /\ orch[c].pc = "idle"
    /\ LET r == handle_insert_lines(Cur, Holders, req)
       IN ClientCommit(r.m, [orch EXCEPT ![c].pc = "done", ![c].req = req,
                                         ![c].resp = [res |-> r.res, val |-> r.val]])

\* clients creating a file and editing its lines in the sessions a writer
\* begins and promotes
NextEdits ==
    \/ BeginStaging
    \/ PromoteStaged
    \/ \E c \in Clients, req \in CreateRequests \cup NewlineCreateRequests :
          HandleCreateBegin(c, req)
    \/ \E c \in Clients : HandleCreateStage(c)
    \/ \E c \in Clients : HandleCreateReadActive(c)
    \/ \E c \in Clients : HandleCreateStats(c)
    \/ \E c \in Clients, req \in SummaryReplaceLines : HandleReplaceLines(c, req)
    \/ \E c \in Clients, req \in DeleteLinesRequests : HandleDeleteLines(c, req)
    \/ \E c \in Clients, req \in InsertLinesRequests : HandleInsertLines(c, req)

SpecEdits == Init /\ [][NextEdits]_vars

(***************************************************************************)
(* IndexManager::load_files (fs/manager.rs) run by one thread, call by     *)
(* call, while another thread drives the manager: the staging mutex is     *)
(* taken and released inside each call load_files makes                    *)
(***************************************************************************)
\* the batches handed to load_files here
LoadBatches == {<<<<k, EntryA>>>> : k \in MgrPaths}

\* a step of load_files leaves the manager in state m and the call in state out
LoaderCommit(m, out) ==
    /\ heap' = m.heap
    /\ active' = m.active
    /\ staged' = m.staged
    /\ cache' = m.cache
    /\ tool' = [tool EXCEPT !.out = out]
    /\ UNCHANGED <<handle, seen, call, ncalls, ix, ixret, orch>>

\* a thread calls load_files(files)
LoadFilesCall(files) ==
    /\ tool.fn = "none"
    /\ tool' = [fn |-> "load_files", in |-> [files |-> files],
                out |-> [pc |-> "clear", i |-> 1, res |-> "none",
                         base |-> None, promoted |-> None]]
    /\ UNCHANGED <<heap, active, staged, cache, handle, seen, call, ncalls, ix, ixret, orch>>

\* { let mut g = self.staged.lock(); *g = None; }
LoadClear ==
    /\ tool.fn = "load_files" /\ tool.out.pc = "clear"
    /\ LoaderCommit(Collect([Cur EXCEPT !.staged = None], Holders),
                    [tool.out EXCEPT !.pc = "begin"])

\* self.begin_staging()?; base is the active index at that moment
LoadBegin ==
    /\ tool.fn = "load_files" /\ tool.out.pc = "begin"
    /\ LET r == begin_staging(Cur, Holders)
       IN LoaderCommit(r.m, IF r.res # "Ok"
                            THEN [tool.out EXCEPT !.pc = "done", !.res = r.res]
                            ELSE [tool.out EXCEPT !.pc = "stage", !.base = ActiveIdx])

\* for (key, entry) in files { self.stage_file(key, entry)?; }
LoadStage ==
    /\ tool.fn = "load_files" /\ tool.out.pc = "stage"
    /\ tool.out.i <= Len(tool.in.files)
    /\ LET f == tool.in.files[tool.out.i]
           r == stage_file(Cur, Holders, f[1], f[2])
       IN LoaderCommit(r.m, IF r.res # "Ok"
                            THEN [tool.out EXCEPT !.pc = "done", !.res = r.res]
                            ELSE [tool.out EXCEPT !.i = @ + 1])

\* self.promote_staged()?; Ok(())
LoadPromote ==
    /\ tool.fn = "load_files" /\ tool.out.pc = "stage"
    /\ tool.out.i > Len(tool.in.files)
    /\ LET r == promote_staged(Cur, Holders)
       IN LoaderCommit(r.m, IF r.res # "Ok"
                            THEN [tool.out EXCEPT !.pc = "done", !.res = r.res]
                            ELSE [tool.out EXCEPT !.pc = "done", !.res = "Ok",
                                                  !.promoted = r.m.heap[r.m.active]])

\* load_files in one thread, the session calls of another thread around it
NextLoad ==
    \/ \E files \in LoadBatches : LoadFilesCall(files)
    \/ LoadClear
    \/ LoadBegin
    \/ LoadStage
    \/ LoadPromote
    \/ BeginStaging
    \/ \E k \in MgrPaths : StageFile(k, EntryB)
    \/ \E k \in MgrPaths : RemoveStagedFile(k)
    \/ PromoteStaged
    \/ RevertStaged

SpecLoad == Init /\ [][NextLoad]_vars

(***************************************************************************)
(* Properties of the IndexManager                                          *)
(***************************************************************************)
\* the step is an IndexManager call named op
CallStep(op) == ncalls' # ncalls /\ call'.op = op

StagedIdx == heap[staged.snapshot]

\* the index a batch of upserts leads to
RECURSIVE ApplyBatch(_, _)
ApplyBatch(i, files) ==
    IF files = <<>> THEN i
    ELSE ApplyBatch(upsert_file(i, Head(files)[1], Head(files)[2]).index, Tail(files))

\* C1: a handle taken with active_index() keeps showing exactly the index it showed
\* when it was taken, whatever begin_staging / stage_file / remove_staged_file /
\* promote_staged / load_files calls follow; a handle taken after a promotion
\* shows the promoted index
C1_SnapshotIsolation ==
    [][\A r \in Readers :
          /\ (handle[r] # {} /\ handle'[r] = handle[r]
                  /\ seen[r].via = "active_index")
                => Held(r)' = seen[r].index /\ seen'[r] = seen[r]
          /\ (handle[r] = {} /\ handle'[r] # {}
                  /\ seen'[r].via = "active_index")
                => Held(r)' = ActiveIdx /\ seen'[r].index = ActiveIdx]_vars

\* a reader still holds the one-file index it took before a promotion that
\* published a two-file index
C1_Witness ==
    /\ call.op = "promote_staged"
    /\ call.res = "Ok"
    /\ len(ActiveIdx) = 2
    /\ \E r \in Readers :
          /\ handle[r] # {}
          /\ seen[r].via = "active_index"
          /\ len(Held(r)) = 1

\* C2: promotion is atomic for readers: the active index a reader can obtain
\* changes only in a successful promote_staged step, where it becomes the whole
\* staged index, or in a successful load_files, where it becomes the index with
\* the whole batch staged; it never holds a part of a session's changes
C2_AtomicPromotion ==
    [][/\ (CallStep("promote_staged") /\ call'.res = "Ok")
            => staged # None /\ ActiveIdx' = StagedIdx
       /\ (CallStep("load_files") /\ call'.res = "Ok")
            => ActiveIdx' = ApplyBatch(ActiveIdx, call'.arg)
       /\ ~((CallStep("promote_staged") \/ CallStep("load_files")) /\ call'.res = "Ok")
            => ActiveIdx' = ActiveIdx
       /\ \A r \in Readers :
            (handle[r] = {} /\ handle'[r] # {}
                /\ seen'[r].via = "active_index")
              => seen'[r].index = ActiveIdx]_vars

\* a reader obtained the index published by a session that staged two files
C2_Witness ==
    /\ call.op = "promote_staged"
    /\ call.res = "Ok"
    /\ ncalls = 4
    /\ \E r \in Readers :
          /\ handle[r] = {active}
          /\ seen[r].via = "active_index"
          /\ len(seen[r].index) = 2

\* the operations that work on the staging session without publishing it
StagingOps ==
    {"begin_staging", "stage_file", "remove_staged_file", "add_files_to_staging",
     "update_line_stats", "revert_staged"}

\* C3: begin_staging, stage_file, remove_staged_file, add_files_to_staging,
\* update_line_stats and revert_staged leave the active index unchanged; only
\* promote_staged and load_files change it
C3_StagedInvisible ==
    [][/\ (ncalls' # ncalls /\ call'.op \in StagingOps)
            => active' = active /\ ActiveIdx' = ActiveIdx
       /\ ActiveIdx' # ActiveIdx
            => ncalls' # ncalls /\ call'.op \in {"promote_staged", "load_files"}]_vars

\* a session that removed the only active file: the active index still has it
C3_Witness ==
    /\ call.op = "remove_staged_file"
    /\ call.res = "Ok"
    /\ len(ActiveIdx) = 1
    /\ len(StagedIdx) = 0
    /\ staged.modified # {}

\* C4: begin_staging() called while a staging session is active fails with
\* StagingAlreadyActive
C4_BeginWhileStagingFails ==
    [][(staged # None /\ CallStep("begin_staging"))
          => call'.res = "StagingAlreadyActive"]_vars

\* the operations that need a staging session
RequireStaging ==
    {"stage_file", "remove_staged_file", "add_files_to_staging", "update_line_stats",
     "promote_staged", "revert_staged", "staged_index", "get_staged_modifications",
     "get_staged_deletions", "get_change_stats", "get_file_change_stats"}

\* C5: with no staging session active, every operation that needs one returns
\* StagingNotActive and leaves the active index, the absent session and the
\* line-index cache unchanged
C5_StagingNotActive ==
    [][(staged = None /\ ncalls' # ncalls /\ call'.op \in RequireStaging)
          => /\ call'.res = "StagingNotActive"
             /\ UNCHANGED <<heap, active, staged, cache>>]_vars

\* stage_file was refused with files in the active index and in the cache
C5_Witness ==
    /\ call.op = "stage_file"
    /\ call.res = "StagingNotActive"
    /\ staged = None
    /\ cache # {}
    /\ len(ActiveIdx) >= 1

\* C6: after a successful load_files(batch) the active index holds exactly the
\* paths of batch, each with the entry given in batch
C6_LoadFilesReplaces ==
    (call.op = "load_files" /\ call.res = "Ok")
        => ActiveIdx = ApplyBatch(IndexDefault, call.arg)

\* C7: a successful promote_staged() makes the active index equal to the staged
\* index as it was before the call, ends the session and empties the line-index
\* cache; a stage_file, promote_staged or revert_staged that follows returns
\* StagingNotActive
C7_PromoteEffect ==
    [][/\ (CallStep("promote_staged") /\ call'.res = "Ok")
            => /\ staged # None
               /\ ActiveIdx' = StagedIdx
               /\ staged' = None
               /\ cache' = {}
       /\ (call.op = "promote_staged" /\ call.res = "Ok" /\ ncalls' # ncalls
               /\ call'.op \in {"stage_file", "promote_staged", "revert_staged"})
            => call'.res = "StagingNotActive"]_vars

\* a promotion published a non-empty index while a reader held the older one
C7_Witness ==
    /\ call.op = "promote_staged"
    /\ call.res = "Ok"
    /\ cache = {}
    /\ staged = None
    /\ len(ActiveIdx) >= 1
    /\ \E r \in Readers : handle[r] # {} /\ handle[r] # {active}

\* C8: revert_staged() discards the whole session: the active index is unchanged
\* for as long as a session lasts and by the revert, no session is active after
\* it, and a begin_staging that follows starts a session whose staged index equals
\* the active index, with an empty modified set, no deletions and no change stats
C8_RevertDiscards ==
    [][/\ (staged # None /\ staged' # None) => ActiveIdx' = ActiveIdx
       /\ (CallStep("revert_staged") /\ call'.res = "Ok")
            => staged # None /\ staged' = None /\ ActiveIdx' = ActiveIdx
       /\ (call.op = "revert_staged" /\ call.res = "Ok" /\ CallStep("begin_staging"))
            => /\ staged' # None
               /\ heap'[staged'.snapshot] = ActiveIdx'
               /\ staged'.modified = {}
               /\ get_staged_deletions(Cur)'.val = {}
               /\ get_change_stats(Cur)'.val = {}]_vars

\* a session whose staged index differed from the active one was reverted: a
\* reader still holds the staged index it took during the session
C8_Witness ==
    /\ call.op = "revert_staged"
    /\ call.res = "Ok"
    /\ staged = None
    /\ \E r \in Readers :
          /\ handle[r] # {}
          /\ seen[r].via = "staged_index"
          /\ seen[r].index # ActiveIdx

\* C9: after any sequence of upsert_file and remove_file calls (failed upserts and
\* removes of absent keys included) the ordered key set equals the map's key set
C9_PrefixesMirrorFiles == ix.prefixes = Keys(ix.files)

\* a failed upsert followed by a remove of an absent key, on a non-empty index
C9_Witness ==
    /\ ixret.op = "remove_file"
    /\ ixret.res = FALSE
    /\ \E k \in Keys(ix.files) : ~is_editable(ix.files[k])
    /\ Cardinality(ix.prefixes) >= 2

\* C10: the ordered key set and the map stay consistent across every Index
\* operation, take included: after take_file(k), k is absent from both, and
\* paths_by_prefix lists exactly the keys get_file finds
C10_ConsistentAfterTake ==
    /\ ix.prefixes = Keys(ix.files)
    /\ \A p \in Paths :
          \A j \in 1..Len(paths_by_prefix(ix, p)) :
              get_file(ix, paths_by_prefix(ix, p)[j]) # None
    /\ len(ix) = Cardinality(ix.prefixes)

\* C11: upsert_file on a key whose existing entry is non-editable returns
\* ReadOnlyFile and leaves the map and the ordered key set unchanged; on an absent
\* key or on an editable entry it returns Ok, stores the new entry under the key,
\* has the key in the ordered key set and leaves every other key as it was
C11_UpsertReadOnly ==
    [][ixret'.op = "upsert_file"
          => LET k == ixret'.key
             IN IF get_file(ix, k) # None /\ ~is_editable(get_file(ix, k))
                THEN ixret'.res = "ReadOnlyFile" /\ ix' = ix
                ELSE /\ ixret'.res = "Ok"
                     /\ get_file(ix', k) = ixret'.entry
                     /\ k \in ix'.prefixes
                     /\ \A p \in Paths \ {k} :
                           /\ get_file(ix', p) = get_file(ix, p)
                           /\ (p \in ix'.prefixes) = (p \in ix.prefixes)]_vars

\* an upsert with different bytes was refused on a read-only entry that stays
C11_Witness ==
    /\ ixret.op = "upsert_file"
    /\ ixret.res = "ReadOnlyFile"
    /\ get_file(ix, ixret.key) # None
    /\ ~is_editable(get_file(ix, ixret.key))
    /\ ixret.entry.bytes # get_file(ix, ixret.key).bytes

\* C12: read-only files are never mutated: while a session lasts, a path whose
\* entry was non-editable when the session began (the active index, which no step
\* of a session changes) never holds an entry with different bytes in the staged
\* index
C12_ReadOnlyNeverMutated ==
    staged # None
        => \A k \in Paths :
              (get_file(ActiveIdx, k) # None /\ ~is_editable(get_file(ActiveIdx, k)))
                  => \/ get_file(StagedIdx, k) = None
                     \/ get_file(StagedIdx, k).bytes = get_file(ActiveIdx, k).bytes

\* C13: a Create request with allow_overwrite = false never replaces an existing
\* staged file: when the path is in the staged index the request returns
\* FileAlreadyExists and changes nothing, at its check and at its write, and of
\* two such requests for the same absent path running at the same time at most
\* one returns created = true
C13_CreateNoOverwrite ==
    [][/\ \A c \in Clients :
            /\ (orch[c].pc = "idle" /\ orch'[c].pc # "idle"
                    /\ ~orch'[c].req.allow_overwrite
                    /\ staged # None /\ get_file(StagedIdx, orch'[c].req.path) # None)
                  => /\ orch'[c].resp.res = "FileAlreadyExists"
                     /\ UNCHANGED <<heap, active, staged, cache>>
            /\ (orch[c].pc = "stage" /\ orch'[c].pc # "stage"
                    /\ ~orch[c].req.allow_overwrite
                    /\ staged # None /\ get_file(StagedIdx, orch[c].req.path) # None)
                  => /\ orch'[c].resp.res = "FileAlreadyExists"
                     /\ get_file(StagedIdx, orch[c].req.path)'
                          = get_file(StagedIdx, orch[c].req.path)
       /\ \A c, d \in Clients :
            (c # d /\ orch'[c].pc = "done" /\ orch'[d].pc = "done"
                 /\ orch'[c].req.path = orch'[d].req.path
                 /\ ~orch'[c].req.allow_overwrite /\ ~orch'[d].req.allow_overwrite)
              => ~(orch'[c].resp.created /\ orch'[d].resp.created)]_vars

\* C14: line-count identity: for every content and list of line operations, the
\* returned content has content.lines().count() + added - removed lines
C14_LineCountIdentity ==
    tool.fn = "apply_line_operations"
        => Len(lines(tool.out.content))
              = Len(lines(tool.in.content)) + tool.out.added - tool.out.removed

\* C15: whenever the original content ends with a newline, the content returned by
\* apply_line_operations ends with a newline, whatever the operations
C15_TrailingNewline ==
    (tool.fn = "apply_line_operations" /\ ends_with_newline(tool.in.content))
        => ends_with_newline(tool.out.content)

\* C16: a ReplaceLines request for an editable staged file that contains a
\* replacement with start > end is rejected with InvalidRange, and the staged
\* index, the modified set and the change stats are left as they were before
\* the request
C16_InvalidRangeRejected ==
    [][\A c \in Clients :
          (orch[c].pc = "idle" /\ orch'[c].pc = "done"
              /\ staged # None /\ get_file(StagedIdx, orch'[c].req.path) # None
              /\ is_editable(get_file(StagedIdx, orch'[c].req.path))
              /\ \E j \in 1..Len(orch'[c].req.replacements) :
                    orch'[c].req.replacements[j].start > orch'[c].req.replacements[j].end)
            => /\ orch'[c].resp.res = "InvalidRange"
               /\ staged' = staged
               /\ StagedIdx' = StagedIdx]_vars

\* C17: one ReplaceRange{start, end, content} with 1 <= start <= N and
\* start <= end on an N-line text returns the text whose lines are the lines
\* before start, then the lines of content, then the lines after min(end, N),
\* with removed = min(end, N) - start + 1 and added = the number of lines of
\* content
C17_ReplaceRangeExact ==
    (/\ tool.fn = "apply_line_operations"
     /\ Len(tool.in.ops) = 1
     /\ tool.in.ops[1].kind = "ReplaceRange"
     /\ 1 <= tool.in.ops[1].start
     /\ tool.in.ops[1].start <= Len(lines(tool.in.content))
     /\ tool.in.ops[1].start <= tool.in.ops[1].end)
        => LET op == tool.in.ops[1]
               old == lines(tool.in.content)
               last == Min(op.end, Len(old))
           IN /\ lines(tool.out.content)
                    = SubSeq(old, 1, op.start - 1) \o lines(op.content)
                          \o SubSeq(old, last + 1, Len(old))
              /\ tool.out.removed = last - op.start + 1
              /\ tool.out.added = Len(lines(op.content))

\* C18: LineIndex round trip: for every byte buffer, the empty one included, and
\* every line k with 1 <= k <= line_count(),
\* line_of_byte(byte_of_line_start(k)) = Some(k)
C18_LineIndexRoundTrip ==
    (tool.fn = "line_of_byte" /\ 1 <= tool.in.line
         /\ tool.in.line <= line_count(tool.out.li))
        => tool.out.line = Some(tool.in.line)

C20_IdentityRoundTrip ==
    (tool.fn = "apply_plan" /\ (tool.in.tpl.whole \/ tool.out.plan.ops = <<>>))
        => tool.out.bytes = tool.in.haystack

\* an identity plan of two ops, one of them not empty, with haystack bytes
\* outside the ops, applied
C20_Witness ==
    /\ tool.fn = "apply_plan"
    /\ tool.in.tpl.whole
    /\ Len(tool.out.plan.ops) = 2
    /\ \E j \in 1..2 : tool.out.plan.ops[j].replacement # <<>>
    /\ \/ tool.out.plan.ops[1].span.start > 0
       \/ tool.out.plan.ops[1].span.end < tool.out.plan.ops[2].span.start
       \/ tool.out.plan.ops[2].span.end < Len(tool.in.haystack)
    /\ tool.out.bytes = tool.in.haystack

\* C21: diff round trip: deleting, for each region of compute_diff(p, a, b),
\* lines_removed lines of a at original_start and inserting added_lines there
\* yields the lines of b; the regions are ordered by ascending original_start
\* and do not overlap; the stats are the sums and the count over the regions;
\* for a = b there are no regions and zero added and removed lines
C21_DiffRoundTrip ==
    LET d == tool.out.diff
        rs == d.regions
    IN /\ tool.fn = "apply_diff" => tool.out.lines = lines(tool.in.modified)
       /\ tool.fn \in {"compute_diff", "apply_diff"}
            => /\ \A j \in 1..(Len(rs) - 1) :
                     /\ rs[j].original_start < rs[j + 1].original_start
                     /\ rs[j].original_start + rs[j].lines_removed
                            <= rs[j + 1].original_start
               /\ \A j \in 1..Len(rs) :
                     /\ rs[j].original_start >= 1
                     /\ rs[j].original_start + rs[j].lines_removed
                            <= Len(lines(tool.in.original)) + 1
                     /\ rs[j].lines_removed = Len(rs[j].removed_lines)
                     /\ rs[j].lines_added = Len(rs[j].added_lines)
               /\ d.stats.lines_added = SumOver(rs, "lines_added")
               /\ d.stats.lines_removed = SumOver(rs, "lines_removed")
               /\ d.stats.regions_changed = Len(rs)
               /\ tool.in.original = tool.in.modified
                     => /\ rs = <<>>
                        /\ d.stats = [lines_added |-> 0, lines_removed |-> 0,
                                      regions_changed |-> 0]

\* a diff of two regions, the first both removing and adding lines, applied
C21_Witness ==
    /\ tool.fn = "apply_diff"
    /\ Len(tool.out.diff.regions) = 2
    /\ tool.out.diff.regions[1].lines_removed > 0
    /\ tool.out.diff.regions[1].lines_added > 0
    /\ tool.out.lines = lines(tool.in.modified)

\* C22: cooperative cancellation: once the caller's abort flag is set during a
\* find scan, no match located after that point, in the current file or a later
\* one, is added to the results, and the call returns success with the results
\* accumulated so far
C22_NoMatchAfterAbort ==
    tool.fn = "handle_find"
        => /\ \A j \in 1..Len(tool.out.results) : ~tool.out.results[j].flag_set
           /\ tool.out.pc = "done" => tool.out.res = "Ok"

\* what a session holds: the staged index, the modified set and the change stats
StagedView ==
    IF staged = None THEN None
    ELSE [index |-> heap[staged.snapshot], modified |-> staged.modified,
          change_stats |-> staged.change_stats]

\* the bytes under each path after copying, one operation after the other
RECURSIVE BytesAfterCopies(_, _)
BytesAfterCopies(bs, ops) ==
    IF ops = <<>> THEN bs
    ELSE BytesAfterCopies([bs EXCEPT ![Head(ops).dst] = bs[Head(ops).src]], Tail(ops))

\* the bytes under each path after moving, one operation after the other
RECURSIVE BytesAfterMoves(_, _)
BytesAfterMoves(bs, ops) ==
    IF ops = <<>> THEN bs
    ELSE BytesAfterMoves([bs EXCEPT ![Head(ops).dst] = bs[Head(ops).src],
                                    ![Head(ops).src] = None], Tail(ops))

\* the bytes under each path of an index, None for an absent path
BytesOf(i) == [p \in Paths |-> IF get_file(i, p) = None THEN None ELSE get_file(i, p).bytes]

C24_SummaryStatus ==
    [][(/\ tool.fn = "none" /\ tool'.fn = "get_modified_files_summary"
        /\ tool'.out.res = "Ok"
        /\ \A d \in Clients : orch[d].pc \in {"idle", "done"})
         => LET s == tool'.out.val
                in_active(p) == get_file(ActiveIdx, p) # None
                in_staged(p) == get_file(StagedIdx, p) # None
            IN /\ \A i, j \in 1..Len(s) : s[i].path = s[j].path => i = j
               /\ \A j \in 1..Len(s) :
                     /\ s[j].status = "Created"
                          <=> (~in_active(s[j].path) /\ in_staged(s[j].path))
                     /\ s[j].status = "Modified"
                          <=> (in_active(s[j].path) /\ in_staged(s[j].path))
                     /\ s[j].status = "Deleted"
                          <=> (in_active(s[j].path) /\ ~in_staged(s[j].path))
               /\ \A p \in staged.modified : \E j \in 1..Len(s) : s[j].path = p]_vars

(***************************************************************************)
(* C25: in every reachable staging state, every path that has a            *)
(* change_stats entry is a member of the modified set                      *)
(***************************************************************************)
C25_StatsWithinModified ==
    staged # None =>
        \A k \in MgrPaths : staged.change_stats[k] # None => k \in staged.modified

(***************************************************************************)
(* C26: under any interleaving of concurrent intern calls the pool never   *)
(* holds two entries for equal strings, every call for the same            *)
(* normalized string returns the same stored entry, and two PathKeys       *)
(* built from strings with the same normalized form compare equal and      *)
(* hash equal                                                              *)
(***************************************************************************)
C26_InternUnique ==
    tool.fn = "intern" =>
        LET o == tool.out
            Returned == {t \in InternThreads : o.thr[t].pc = "done" /\ o.thr[t].ret # 0}
        IN /\ \A a, b \in o.pool : o.arcs[a] = o.arcs[b] => a = b
           /\ \A t \in Returned :
                 /\ o.thr[t].ret \in o.pool
                 /\ o.arcs[o.thr[t].ret] = normalize_for_index(o.thr[t].raw).val
           /\ \A t, u \in Returned :
                 normalize_for_index(o.thr[t].raw).val = normalize_for_index(o.thr[u].raw).val
                 => /\ o.thr[t].ret = o.thr[u].ret
                    /\ PathKeyEq(o.arcs, o.thr[t].ret, o.thr[u].ret)
                    /\ PathKeyHash(o.arcs, o.thr[t].ret) = PathKeyHash(o.arcs, o.thr[u].ret)

\* three calls with different strings of one normalized form have returned: one
\* inserted the entry, one found it at the double-check, one on the fast path
C26_Witness ==
    /\ tool.fn = "intern"
    /\ \E t, u, v \in InternThreads :
          /\ tool.out.thr[t].via = "insert"
          /\ tool.out.thr[u].via = "double_check"
          /\ tool.out.thr[v].via = "fast"
          /\ tool.out.thr[t].raw # tool.out.thr[u].raw
          /\ tool.out.thr[u].raw # tool.out.thr[v].raw
          /\ tool.out.thr[t].raw # tool.out.thr[v].raw
          /\ tool.out.thr[t].norm = tool.out.thr[u].norm
          /\ tool.out.thr[u].norm = tool.out.thr[v].norm

(***************************************************************************)
(* C27: after remove_staged_file(k) succeeds, k is absent from the staged  *)
(* index, is in the modified set and among get_staged_deletions, has no    *)
(* change stats and no line-index cache entry at any mtime, and the        *)
(* entries, change stats and cache entries of every other path are         *)
(* unchanged                                                               *)
(***************************************************************************)
C27_RemoveStagedFile ==
    [][\A k \in MgrPaths :
          (RemoveStagedFile(k) /\ call'.res = "Ok")
          => /\ get_file(StagedIdx', k) = None
             /\ k \in staged'.modified
             /\ k \in get_staged_deletions(Cur').val
             /\ get_file_change_stats(Cur', k) = [res |-> "Ok", val |-> None]
             /\ \A c \in cache' : c.path # k
             /\ \A p \in Paths \ {k} :
                   /\ get_file(StagedIdx', p) = get_file(StagedIdx, p)
                   /\ staged'.change_stats[p] = staged.change_stats[p]
                   /\ {c \in cache' : c.path = p} = {c \in cache : c.path = p}
             /\ staged'.modified = staged.modified \cup {k}]_vars

\* a removal has returned Ok: a path of the active index is gone from the staged
\* index, while another path keeps its staged entry, its change stats and its
\* cached line index
C27_Witness ==
    /\ call.op = "remove_staged_file" /\ call.res = "Ok"
    /\ staged # None
    /\ \E k, p \in MgrPaths :
          /\ k # p
          /\ get_file(ActiveIdx, k) # None
          /\ get_file(StagedIdx, k) = None
          /\ k \in staged.modified
          /\ get_file(StagedIdx, p) # None
          /\ staged.change_stats[p] # None
          /\ \E c \in cache : c.path = p

(***************************************************************************)
(* C28: after update_line_stats(k, _, _, n) the entry change_stats[k]      *)
(* holds the lines added and removed of the diff between the active        *)
(* content of k (empty if k is absent from active) and the staged content  *)
(* of k, the line count of the active content and n, whatever was stored   *)
(* for k before                                                            *)
(***************************************************************************)
C28_StatsFromDiff ==
    [][\A k \in MgrPaths, n \in LineCounts :
          (UpdateLineStats(k, n) /\ call'.res = "Ok")
          => LET ae == get_file(ActiveIdx, k)
                 se == get_file(StagedIdx, k)
                 original == IF ae = None THEN <<>> ELSE ae.bytes
                 current == IF se = None THEN <<>> ELSE se.bytes
                 stats == staged'.change_stats[k]
             IN /\ stats # None
                /\ \A s \in iter_all_changes(original, current) :
                      /\ stats.lines_added = compute_diff(s).stats.lines_added
                      /\ stats.lines_removed = compute_diff(s).stats.lines_removed
                /\ stats.original_line_count = Len(lines(original))
                /\ stats.current_line_count = n]_vars

\* update_line_stats has returned Ok for a path whose staged content differs
\* from its active content in added and in removed lines, and the count
\* passed is not the line count of the staged content
C28_Witness ==
    /\ call.op = "update_line_stats" /\ call.res = "Ok"
    /\ staged # None
    /\ \E k \in MgrPaths :
          /\ get_file(ActiveIdx, k) # None
          /\ get_file(StagedIdx, k) # None
          /\ staged.change_stats[k] # None
          /\ staged.change_stats[k].lines_added > 0
          /\ staged.change_stats[k].lines_removed > 0
          /\ staged.change_stats[k].lines_added =
                DiffStats(get_file(ActiveIdx, k).bytes, get_file(StagedIdx, k).bytes).lines_added
          /\ staged.change_stats[k].current_line_count #
                Len(lines(get_file(StagedIdx, k).bytes))

(***************************************************************************)
(* C29: a handle returned by staged_index() or active_index() keeps        *)
(* observing the same paths and entries across later stage_file and        *)
(* remove_staged_file calls: a write while a handle shares the session's   *)
(* index goes to a clone; the writer's next staged_index() shows every     *)
(* write made so far, in program order                                     *)
(***************************************************************************)
C29_HandlesImmutable ==
    [][/\ \A k \in MgrPaths, e \in Entries :
             (StageFile(k, e) /\ staged # None)
             => /\ \A r \in Readers :
                      handle[r] # {} => /\ Held(r)' = Held(r)
                                        /\ Held(r)' = seen[r].index
                /\ (\E r \in Readers : handle[r] = {staged.snapshot})
                      => staged'.snapshot # staged.snapshot
                /\ call'.res = "Ok" => StagedIdx' = upsert_file(StagedIdx, k, e).index
                /\ call'.res # "Ok" => StagedIdx' = StagedIdx
       /\ \A k \in MgrPaths :
             (RemoveStagedFile(k) /\ staged # None)
             => /\ \A r \in Readers :
                      handle[r] # {} => /\ Held(r)' = Held(r)
                                        /\ Held(r)' = seen[r].index
                /\ (\E r \in Readers : handle[r] = {staged.snapshot})
                      => staged'.snapshot # staged.snapshot
                /\ StagedIdx' = remove_file(StagedIdx, k).index
       /\ \A r \in Readers :
             (StagedIndex(r) /\ staged # None)
             => Held(r)' = StagedIdx /\ seen'[r].index = StagedIdx]_vars

\* a reader holds a handle from staged_index() to an index that is neither the
\* session's nor the active one and shows what it showed when taken, while the
\* session's index, written to since, shows something else
C29_Witness ==
    /\ call.op \in {"stage_file", "remove_staged_file"} /\ call.res = "Ok"
    /\ staged # None
    /\ \E r \in Readers :
          /\ handle[r] # {}
          /\ seen[r].via = "staged_index"
          /\ handle[r] # {staged.snapshot}
          /\ handle[r] # {active}
          /\ Held(r) = seen[r].index
          /\ Held(r) # StagedIdx

(***************************************************************************)
(* Edits of a batch performed at their original line positions             *)
(***************************************************************************)
\* the lines an operation touches
C30_Touched(op) ==
    IF op.kind \in {"ReplaceRange", "DeleteRange"} THEN op.start..op.end ELSE {op.start}

C30_Disjoint(ops) ==
    \A i, j \in 1..Len(ops) :
        i # j => /\ ops[i].start # ops[j].start
                 /\ C30_Touched(ops[i]) \cap C30_Touched(ops[j]) = {}

\* the operation has a position in a text of n lines
C30_Applies(op, n) ==
    CASE op.kind \in {"ReplaceRange", "DeleteRange"} ->
            op.start > 0 /\ op.start <= n /\ op.start <= op.end
      [] op.kind = "InsertBefore" -> op.start > 0 /\ op.start <= n + 1
      [] op.kind = "InsertAfter" -> op.start > 0 /\ op.start <= n

\* what stands at original line i (n + 1 is the end of the text) once every
\* operation is performed there: the text inserted before it, the line or what
\* replaces it, the text inserted after it
C30_At(ls, ops, i) ==
    LET n == Len(ls)
        S == {j \in 1..Len(ops) : C30_Applies(ops[j], n)}
        before == {j \in S : ops[j].kind = "InsertBefore" /\ ops[j].start = i}
        after == {j \in S : ops[j].kind = "InsertAfter" /\ ops[j].start = i}
        over == {j \in S : /\ ops[j].kind \in {"ReplaceRange", "DeleteRange"}
                           /\ ops[j].start <= i /\ i <= ops[j].end}
        text(J) == IF J = {} THEN <<>> ELSE lines(ops[CHOOSE j \in J : TRUE].content)
        body == IF i > n THEN <<>>
                ELSE IF over = {} THEN <<ls[i]>>
                ELSE LET op == ops[CHOOSE j \in over : TRUE]
                     IN IF op.kind = "ReplaceRange" /\ op.start = i
                        THEN lines(op.content) ELSE <<>>
    IN text(before) \o body \o text(after)

RECURSIVE C30_AtOriginalPositions(_, _, _)
C30_AtOriginalPositions(ls, ops, i) ==
    IF i > Len(ls) + 1 THEN <<>>
    ELSE C30_At(ls, ops, i) \o C30_AtOriginalPositions(ls, ops, i + 1)

\* the lines as text, a final newline kept if the original text had one
C30_Text(content, ls) ==
    IF ends_with_newline(content) /\ join(ls) # <<>> THEN Append(join(ls), NL) ELSE join(ls)

\* every ordering of a batch
C30_Orderings(ops) ==
    {[j \in 1..Len(ops) |-> ops[p[j]]] :
        p \in {q \in [1..Len(ops) -> 1..Len(ops)] :
                 \A a, b \in 1..Len(ops) : q[a] = q[b] => a = b}}

\* C30: for a batch of operations that touch pairwise disjoint line ranges with
\* distinct start lines, apply_line_operations gives the same result for every
\* ordering of the batch, and that result is the text obtained by performing
\* each edit at its original line position
C30_OriginalNumbering ==
    (tool.fn = "apply_line_operations" /\ C30_Disjoint(tool.in.ops))
    => /\ tool.out.content =
             C30_Text(tool.in.content,
                      C30_AtOriginalPositions(lines(tool.in.content), tool.in.ops, 1))
       /\ \A o \in C30_Orderings(tool.in.ops) :
             apply_line_operations(tool.in.content, o) = tool.out

\* two operations on different lines of a text, the one on the earlier line
\* given first and changing the number of lines, have both been applied
C30_Witness ==
    /\ tool.fn = "apply_line_operations"
    /\ Len(tool.in.ops) = 2
    /\ C30_Disjoint(tool.in.ops)
    /\ \A j \in 1..2 : C30_Applies(tool.in.ops[j], Len(lines(tool.in.content)))
    /\ tool.in.ops[1].start < tool.in.ops[2].start
    /\ tool.in.ops[1].kind = "ReplaceRange"
    /\ Len(lines(tool.in.ops[1].content)) = 2
    /\ tool.in.ops[1].end = tool.in.ops[1].start
    /\ tool.in.ops[2].kind = "DeleteRange"
    /\ tool.out.added = 2 /\ tool.out.removed = 2

(***************************************************************************)
(* C31: DeleteRange{start, end} with 1 <= start <= N and end > N on an     *)
(* N-line text removes exactly lines start..N, reports removed =           *)
(* N - start + 1 and added = 0, and leaves lines 1..start-1 unchanged      *)
(***************************************************************************)
C31_DeleteRangeClamped ==
    (/\ tool.fn = "apply_line_operations"
     /\ Len(tool.in.ops) = 1
     /\ tool.in.ops[1].kind = "DeleteRange"
     /\ 1 <= tool.in.ops[1].start
     /\ tool.in.ops[1].start <= Len(lines(tool.in.content))
     /\ tool.in.ops[1].end > Len(lines(tool.in.content)))
    => LET N == Len(lines(tool.in.content))
           op == tool.in.ops[1]
       IN /\ lines(tool.out.content) = SubSeq(lines(tool.in.content), 1, op.start - 1)
          /\ tool.out.removed = N - op.start + 1
          /\ tool.out.added = 0

(***************************************************************************)
(* C32: when every operation in the list is invalid (start or line = 0,    *)
(* start > end, start > N, InsertBefore line > N + 1, InsertAfter line >   *)
(* N) or the list is empty, apply_line_operations returns the input        *)
(* content byte-for-byte unchanged with added = 0 and removed = 0          *)
(***************************************************************************)
C32_InvalidOpsIgnored ==
    (/\ tool.fn = "apply_line_operations"
     /\ \A j \in 1..Len(tool.in.ops) :
           LET op == tool.in.ops[j]
               N == Len(lines(tool.in.content))
           IN \/ op.start = 0
              \/ op.kind \in {"ReplaceRange", "DeleteRange"} /\ op.start > op.end
              \/ op.kind \in {"ReplaceRange", "DeleteRange"} /\ op.start > N
              \/ op.kind = "InsertBefore" /\ op.start > N + 1
              \/ op.kind = "InsertAfter" /\ op.start > N)
    => /\ tool.out.content = tool.in.content
       /\ tool.out.added = 0
       /\ tool.out.removed = 0

(***************************************************************************)
(* C33: get_line_index(key, snapshot) returns a LineIndex equal to         *)
(* LineIndex::build of the bytes key has in the snapshot passed in, never  *)
(* one built from another version of the file, also when two versions      *)
(* carry the same mtime                                                    *)
(***************************************************************************)
C33_CacheCoherent ==
    (tool.fn = "get_line_index" /\ get_file(tool.in.index, tool.in.path) # None)
    => tool.out = Some(LineIndexBuild(get_file(tool.in.index, tool.in.path).bytes))

(***************************************************************************)
(* C34: when stage_file(k, e) returns ReadOnlyFile, the staged index, the  *)
(* modified set (and hence get_staged_modifications and                    *)
(* get_staged_deletions) and the change stats are the same as before the   *)
(* call                                                                    *)
(***************************************************************************)
C34_FailedStageNoOp ==
    [][\A k \in MgrPaths, e \in Entries :
          (StageFile(k, e) /\ call'.res = "ReadOnlyFile")
          => /\ StagedIdx' = StagedIdx
             /\ staged'.modified = staged.modified
             /\ get_staged_modifications(Cur') = get_staged_modifications(Cur)
             /\ get_staged_deletions(Cur') = get_staged_deletions(Cur)
             /\ staged'.change_stats = staged.change_stats]_vars

(***************************************************************************)
(* C35: every path returned by get_staged_deletions is present in the      *)
(* active index and absent from the staged index; a file created and then  *)
(* deleted within the session, or a remove_staged_file on a path that      *)
(* never existed, is not reported as a deletion                            *)
(***************************************************************************)
C35_DeletionsWereActive ==
    staged # None =>
        \A p \in get_staged_deletions(Cur).val :
            /\ get_file(ActiveIdx, p) # None
            /\ get_file(StagedIdx, p) = None

(***************************************************************************)
(* C36: after any sequence of Create, ReplaceLines, DeleteLines and        *)
(* InsertLines requests, every change_stats entry satisfies                *)
(* current_line_count = original_line_count + lines_added - lines_removed, *)
(* and current_line_count is the number of lines of the staged content     *)
(***************************************************************************)
C36_StatsArithmetic ==
    (staged # None /\ \A c \in Clients : orch[c].pc \in {"idle", "done"})
    => \A k \in MgrPaths :
          staged.change_stats[k] # None
          => LET s == staged.change_stats[k]
                 se == get_file(StagedIdx, k)
             IN /\ s.current_line_count
                      = s.original_line_count + s.lines_added - s.lines_removed
                /\ s.current_line_count = (IF se = None THEN 0 ELSE Len(lines(se.bytes)))

(***************************************************************************)
(* C37: for every Created or Modified path of the ModifiedFilesSummary,    *)
(* lines_added and lines_removed equal the stats of get_file_diff(path)    *)
(* at that moment, after any sequence of Create requests (overwriting a    *)
(* file created earlier in the session included) and line edits            *)
(***************************************************************************)
C37_SummaryMatchesDiff ==
    [][(/\ tool.fn = "none" /\ tool'.fn = "get_modified_files_summary"
        /\ tool'.out.res = "Ok"
        /\ \A d \in Clients : orch[d].pc \in {"idle", "done"})
         => \A j \in 1..Len(tool'.out.val) :
               LET s == tool'.out.val[j]
               IN s.status \in {"Created", "Modified"}
                  => /\ s.lines_added = get_file_diff(Cur, s.path).lines_added
                     /\ s.lines_removed = get_file_diff(Cur, s.path).lines_removed]_vars

(***************************************************************************)
(* C38: in every interleaving of load_files(batch) with another thread's   *)
(* begin_staging / stage_file / remove_staged_file / promote_staged /      *)
(* revert_staged calls, load_files never returns StagingNotActive, and the *)
(* index it promotes is the batch applied to the active index its session  *)
(* started from, with no write of the other thread in it                   *)
(***************************************************************************)
C38_LoadFilesAtomic ==
    (tool.fn = "load_files" /\ tool.out.pc = "done")
    => /\ tool.out.res # "StagingNotActive"
       /\ tool.out.res = "Ok"
            => tool.out.promoted = ApplyBatch(tool.out.base, tool.in.files)

\* the lines of ls whose 1-based numbers are not in del, in order
C39_Kept(ls, del) ==
    LET idx == OrdSeqOfOffsets((1..Len(ls)) \ del)
    IN [j \in 1..Len(idx) |-> ls[idx[j]]]

\* C39: a DeleteLines request that returns Ok removes exactly the lines whose
\* 1-based numbers are listed and lie in 1..N, whatever the order of the list and
\* the duplicates or out-of-range numbers (0 included) in it; lines_replaced is the
\* number of lines removed and total_lines = original_lines - lines_replaced
C39_DeleteListedLines ==
    [][\A c \in Clients :
          (/\ orch[c].pc = "idle" /\ orch'[c].pc = "done"
           /\ "line_numbers" \in DOMAIN orch'[c].req
           /\ orch'[c].resp.res = "Ok")
          => LET req == orch'[c].req
                 val == orch'[c].resp.val
                 before == lines(get_file(StagedIdx, req.path).bytes)
                 after == lines(get_file(heap'[staged'.snapshot], req.path).bytes)
                 listed == {req.line_numbers[j] : j \in 1..Len(req.line_numbers)}
                              \cap (1..Len(before))
             IN /\ after = C39_Kept(before, listed)
                /\ val.lines_replaced = Cardinality(listed)
                /\ val.total_lines = val.original_lines - val.lines_replaced]_vars

\* C40: an abort request is never lost: once abort() has been called on the flag,
\* is_aborted() stays true (no owner reset() happens here), whether the request
\* came just before the handle_find call or during it, and handle_find stops at
\* the head of its loop before scanning the next file; handle_find never clears
\* a pending request
C40_AbortNeverLost ==
    [][tool.out.abort
         => /\ tool'.out.abort
            /\ (tool.fn = "handle_find" /\ tool.out.pc = "files")
                  => tool'.out.pc = "return"]_vars
====
